---- MODULE Spec2Model ----
(***************************************************************************)
(* Model of the status-transition time-accounting engine of                *)
(* jira-flow-analyzer (src/data_analyzer.py, class DataAnalyzer).          *)
(*                                                                         *)
(* Time is counted in integer ticks.  A pandas Timestamp is modelled by    *)
(* its wall-clock reading and its UTC offset (or by the absence of one);   *)
(* its absolute instant is wall - off.  Durations are kept in ticks: the   *)
(* code's division by 24 * 3600 is a change of unit.                       *)
(***************************************************************************)
EXTENDS Integers, Sequences, FiniteSets, TLC

(***************************************************************************)
(* Bounds of the model.                                                    *)
(***************************************************************************)
MaxT == 1          \* wall-clock readings of the data range over 0..MaxT
MaxTrans == 2      \* transitions per issue

Walls == 0..MaxT
Offsets == {0, 1}  \* UTC offsets carried by offset-aware timestamps
NowUTC == MaxT + 1 \* the instant read by pd.Timestamp.now()

(***************************************************************************)
(* Timestamps.                                                             *)
(***************************************************************************)
NaT == [kind |-> "none", wall |-> 0, aware |-> FALSE, off |-> 0]

Aware(w, o) == [kind |-> "ts", wall |-> w, aware |-> TRUE, off |-> o]

Naive(w) == [kind |-> "ts", wall |-> w, aware |-> FALSE, off |-> 0]

Timestamps == {Aware(w, o) : w \in Walls, o \in Offsets} \cup {Naive(w) : w \in Walls}

notna(ts) == ts.kind = "ts"

\* ts.tz : None for a naive timestamp, else the fixed offset
tz(ts) == [aware |-> ts.aware, off |-> ts.off]

\* the absolute instant of an aware timestamp; the wall reading of a naive one
Instant(ts) == ts.wall - ts.off

tz_convert_UTC(ts) == Aware(ts.wall - ts.off, 0)

tz_localize_UTC(ts) == Aware(ts.wall, 0)

\* a normalization that takes the wall-clock reading of every timestamp as
\* UTC; with it the results depend on the offsets
LocalizeAlways(ts) == tz_localize_UTC(ts)

\* x.tz_convert('UTC') if x.tz else x.tz_localize('UTC')
ToUTC(ts) == IF ts.aware THEN tz_convert_UTC(ts) ELSE tz_localize_UTC(ts)

\* pd.Timestamp.now(tz=...): the host clock is taken to run on UTC
TimestampNow(zone) == IF zone.aware THEN Aware(NowUTC + zone.off, zone.off)
                      ELSE Naive(NowUTC)

\* Timestamp comparison and subtraction raise TypeError on mixed awareness
Comparable(a, b) == a.aware = b.aware

Minus(a, b) == Instant(a) - Instant(b)


(***************************************************************************)
(* The status categories and the seed dictionary of DataAnalyzer.__init__. *)
(* A dict iterates in insertion order.                                     *)
(***************************************************************************)
CatOrder == <<"in_progress", "testing", "validation", "done", "waiting">>

Categories == {CatOrder[i] : i \in 1..Len(CatOrder)}

SeedMappings ==
  [in_progress |-> <<"In Progress", "In Development", "Development", "Doing",
                     "Work In Progress", "Active", "In analysis",
                     "Analysis in progress", "Implementation in progress",
                     "Planning", "realization", "Executing">>,
   testing     |-> <<"Testing", "To Test", "In Testing", "Test", "QA",
                     "Quality Assurance", "Fixed">>,
   validation  |-> <<"Validation", "To Validate", "In Review", "Review",
                     "Validation", "Acceptance", "verify">>,
   done        |-> <<"Done", "Closed", "Resolved", "Complete", "Finished",
                     "Completed", "Delivered", "Released", "Close",
                     "PRD Deployed">>,
   waiting     |-> <<"Waiting", "New", "Open", "Accepted",
                     "Information needed", "On Hold", "Blocked", "Pending",
                     "Deployment requested", "Estimation", "To Deploy",
                     "Waiting for Deployment", "Waiting for Release",
                     "Waiting for Approval", "Waiting for Feedback",
                     "Waiting for Review", "Waiting for Test",
                     "Waiting for Validation", "Analysis - Wait Customer",
                     "Need info", "Authorization", "GLOBAL BACKLOG", "ToDo">>]

\* x in list
InList(x, list) == \E i \in 1..Len(list) : list[i] = x

\* DataAnalyzer._is_status_type
is_status_type(mappings, status_name, status_type) ==
  /\ status_type \in DOMAIN mappings
  /\ InList(status_name, mappings[status_type])

\* the keys of the durations dict of _calculate_issue_status_durations
DurationKeys == {"in_progress", "testing", "waiting", "validation"}

ZeroDurations == [k \in DurationKeys |-> 0]

\* for status_type, status_names in self.status_mappings.items():
\*     if status_type in durations and current_status in status_names: ... break
\* 0 when the loop ends without a hit
AccumulatingIndex(mappings, status) ==
  LET hits == {i \in 1..Len(CatOrder) :
                 /\ CatOrder[i] \in DurationKeys
                 /\ InList(status, mappings[CatOrder[i]])}
  IN IF hits = {} THEN 0 ELSE CHOOSE i \in hits : \A j \in hits : i <= j

\* an accumulation that keeps only the last interval of a category; with it
\* the durations no longer add up to the elapsed time
AccumulateOverwrite(mappings, durations, status, duration) ==
  LET i == AccumulatingIndex(mappings, status)
  IN IF i = 0 THEN durations
     ELSE [durations EXCEPT ![CatOrder[i]] = duration]

\* durations[status_type] += duration for the first matching category
Accumulate(mappings, durations, status, duration) ==
  LET i == AccumulatingIndex(mappings, status)
  IN IF i = 0 THEN durations
     ELSE [durations EXCEPT ![CatOrder[i]] = @ + duration]

\* a str is falsy exactly when it is empty; None is modelled by ""
Truthy(status) == status # ""

(***************************************************************************)
(* Status names are Python strings.  Chars gives the characters of every   *)
(* name the model uses: the literals of the seed dictionary and the status *)
(* names of the data.                                                      *)
(***************************************************************************)
CharTable ==
  {<<"In Progress", <<"I", "n", " ", "P", "r", "o", "g", "r", "e", "s", "s">>>>,
   <<"In Development", <<"I", "n", " ", "D", "e", "v", "e", "l", "o", "p", "m", "e", "n", "t">>>>,
   <<"Development", <<"D", "e", "v", "e", "l", "o", "p", "m", "e", "n", "t">>>>,
   <<"Doing", <<"D", "o", "i", "n", "g">>>>,
   <<"Work In Progress", <<"W", "o", "r", "k", " ", "I", "n", " ", "P", "r", "o", "g", "r", "e", "s", "s">>>>,
   <<"Active", <<"A", "c", "t", "i", "v", "e">>>>,
   <<"In analysis", <<"I", "n", " ", "a", "n", "a", "l", "y", "s", "i", "s">>>>,
   <<"Analysis in progress", <<"A", "n", "a", "l", "y", "s", "i", "s", " ", "i", "n", " ", "p", "r", "o", "g", "r", "e", "s", "s">>>>,
   <<"Implementation in progress", <<"I", "m", "p", "l", "e", "m", "e", "n", "t", "a", "t", "i", "o", "n", " ", "i", "n", " ", "p", "r", "o", "g", "r", "e", "s", "s">>>>,
   <<"Planning", <<"P", "l", "a", "n", "n", "i", "n", "g">>>>,
   <<"realization", <<"r", "e", "a", "l", "i", "z", "a", "t", "i", "o", "n">>>>,
   <<"Executing", <<"E", "x", "e", "c", "u", "t", "i", "n", "g">>>>,
   <<"Testing", <<"T", "e", "s", "t", "i", "n", "g">>>>,
   <<"To Test", <<"T", "o", " ", "T", "e", "s", "t">>>>,
   <<"In Testing", <<"I", "n", " ", "T", "e", "s", "t", "i", "n", "g">>>>,
   <<"Test", <<"T", "e", "s", "t">>>>,
   <<"QA", <<"Q", "A">>>>,
   <<"Quality Assurance", <<"Q", "u", "a", "l", "i", "t", "y", " ", "A", "s", "s", "u", "r", "a", "n", "c", "e">>>>,
   <<"Fixed", <<"F", "i", "x", "e", "d">>>>,
   <<"Validation", <<"V", "a", "l", "i", "d", "a", "t", "i", "o", "n">>>>,
   <<"To Validate", <<"T", "o", " ", "V", "a", "l", "i", "d", "a", "t", "e">>>>,
   <<"In Review", <<"I", "n", " ", "R", "e", "v", "i", "e", "w">>>>,
   <<"Review", <<"R", "e", "v", "i", "e", "w">>>>,
   <<"Acceptance", <<"A", "c", "c", "e", "p", "t", "a", "n", "c", "e">>>>,
   <<"verify", <<"v", "e", "r", "i", "f", "y">>>>,
   <<"Done", <<"D", "o", "n", "e">>>>,
   <<"Closed", <<"C", "l", "o", "s", "e", "d">>>>,
   <<"Resolved", <<"R", "e", "s", "o", "l", "v", "e", "d">>>>,
   <<"Complete", <<"C", "o", "m", "p", "l", "e", "t", "e">>>>,
   <<"Finished", <<"F", "i", "n", "i", "s", "h", "e", "d">>>>,
   <<"Completed", <<"C", "o", "m", "p", "l", "e", "t", "e", "d">>>>,
   <<"Delivered", <<"D", "e", "l", "i", "v", "e", "r", "e", "d">>>>,
   <<"Released", <<"R", "e", "l", "e", "a", "s", "e", "d">>>>,
   <<"Close", <<"C", "l", "o", "s", "e">>>>,
   <<"PRD Deployed", <<"P", "R", "D", " ", "D", "e", "p", "l", "o", "y", "e", "d">>>>,
   <<"Waiting", <<"W", "a", "i", "t", "i", "n", "g">>>>,
   <<"New", <<"N", "e", "w">>>>,
   <<"Open", <<"O", "p", "e", "n">>>>,
   <<"Accepted", <<"A", "c", "c", "e", "p", "t", "e", "d">>>>,
   <<"Information needed", <<"I", "n", "f", "o", "r", "m", "a", "t", "i", "o", "n", " ", "n", "e", "e", "d", "e", "d">>>>,
   <<"On Hold", <<"O", "n", " ", "H", "o", "l", "d">>>>,
   <<"Blocked", <<"B", "l", "o", "c", "k", "e", "d">>>>,
   <<"Pending", <<"P", "e", "n", "d", "i", "n", "g">>>>,
   <<"Deployment requested", <<"D", "e", "p", "l", "o", "y", "m", "e", "n", "t", " ", "r", "e", "q", "u", "e", "s", "t", "e", "d">>>>,
   <<"Estimation", <<"E", "s", "t", "i", "m", "a", "t", "i", "o", "n">>>>,
   <<"To Deploy", <<"T", "o", " ", "D", "e", "p", "l", "o", "y">>>>,
   <<"Waiting for Deployment", <<"W", "a", "i", "t", "i", "n", "g", " ", "f", "o", "r", " ", "D", "e", "p", "l", "o", "y", "m", "e", "n", "t">>>>,
   <<"Waiting for Release", <<"W", "a", "i", "t", "i", "n", "g", " ", "f", "o", "r", " ", "R", "e", "l", "e", "a", "s", "e">>>>,
   <<"Waiting for Approval", <<"W", "a", "i", "t", "i", "n", "g", " ", "f", "o", "r", " ", "A", "p", "p", "r", "o", "v", "a", "l">>>>,
   <<"Waiting for Feedback", <<"W", "a", "i", "t", "i", "n", "g", " ", "f", "o", "r", " ", "F", "e", "e", "d", "b", "a", "c", "k">>>>,
   <<"Waiting for Review", <<"W", "a", "i", "t", "i", "n", "g", " ", "f", "o", "r", " ", "R", "e", "v", "i", "e", "w">>>>,
   <<"Waiting for Test", <<"W", "a", "i", "t", "i", "n", "g", " ", "f", "o", "r", " ", "T", "e", "s", "t">>>>,
   <<"Waiting for Validation", <<"W", "a", "i", "t", "i", "n", "g", " ", "f", "o", "r", " ", "V", "a", "l", "i", "d", "a", "t", "i", "o", "n">>>>,
   <<"Analysis - Wait Customer", <<"A", "n", "a", "l", "y", "s", "i", "s", " ", "-", " ", "W", "a", "i", "t", " ", "C", "u", "s", "t", "o", "m", "e", "r">>>>,
   <<"Need info", <<"N", "e", "e", "d", " ", "i", "n", "f", "o">>>>,
   <<"Authorization", <<"A", "u", "t", "h", "o", "r", "i", "z", "a", "t", "i", "o", "n">>>>,
   <<"GLOBAL BACKLOG", <<"G", "L", "O", "B", "A", "L", " ", "B", "A", "C", "K", "L", "O", "G">>>>,
   <<"ToDo", <<"T", "o", "D", "o">>>>,
   <<"To Do", <<"T", "o", " ", "D", "o">>>>,
   <<"Ready for QA", <<"R", "e", "a", "d", "y", " ", "f", "o", "r", " ", "Q", "A">>>>,
   <<"Ready", <<"R", "e", "a", "d", "y">>>>,
   <<"test", <<"t", "e", "s", "t">>>>,
   <<"waiting for test", <<"w", "a", "i", "t", "i", "n", "g", " ", "f", "o", "r", " ", "t", "e", "s", "t">>>>,
   <<"Val", <<"V", "a", "l">>>>,
   <<"QA Ready", <<"Q", "A", " ", "R", "e", "a", "d", "y">>>>,
   <<"Ready QA", <<"R", "e", "a", "d", "y", " ", "Q", "A">>>>,
   <<"ready qa", <<"r", "e", "a", "d", "y", " ", "q", "a">>>>}

NameUniverse == {entry[1] : entry \in CharTable}

Chars == [name \in NameUniverse |-> (CHOOSE entry \in CharTable : entry[1] = name)[2]]

LowerOf ==
  ("A" :> "a") @@ ("B" :> "b") @@ ("C" :> "c") @@ ("D" :> "d")
  @@ ("E" :> "e") @@ ("F" :> "f") @@ ("G" :> "g") @@ ("H" :> "h")
  @@ ("I" :> "i") @@ ("J" :> "j") @@ ("K" :> "k") @@ ("L" :> "l")
  @@ ("M" :> "m") @@ ("N" :> "n") @@ ("O" :> "o") @@ ("P" :> "p")
  @@ ("Q" :> "q") @@ ("R" :> "r") @@ ("S" :> "s") @@ ("T" :> "t")
  @@ ("U" :> "u") @@ ("V" :> "v") @@ ("W" :> "w") @@ ("X" :> "x")
  @@ ("Y" :> "y") @@ ("Z" :> "z")

\* str.lower()
Lower(cs) ==
  [i \in 1..Len(cs) |-> IF cs[i] \in DOMAIN LowerOf THEN LowerOf[cs[i]] ELSE cs[i]]

\* a in b, for strings
IsSubstring(a, b) ==
  \E i \in 0..(Len(b) - Len(a)) : SubSeq(b, i + 1, i + Len(a)) = a

\* set(s.split()): the maximal runs of non-blank characters
WordSet(cs) ==
  LET n == Len(cs)
      runs == {r \in (1..n) \X (1..n) :
                 /\ r[1] <= r[2]
                 /\ \A k \in r[1]..r[2] : cs[k] # " "
                 /\ r[1] = 1 \/ cs[r[1] - 1] = " "
                 /\ r[2] = n \/ cs[r[2] + 1] = " "}
  IN {SubSeq(cs, r[1], r[2]) : r \in runs}

Min(a, b) == IF a <= b THEN a ELSE b

Max(a, b) == IF a >= b THEN a ELSE b

(***************************************************************************)
(* _find_best_status_match.  A score is the fraction num/den; fractions    *)
(* are compared by cross multiplication.                                   *)
(***************************************************************************)
Fraction(n, d) == [num |-> n, den |-> d]

Greater(x, y) == x.num * y.den > y.num * x.den

\* best_score > 0.3
AcceptScore(score) == Greater(score, Fraction(3, 10))

\* what one known status contributes: exact match, substring score (0 when
\* neither string contains the other) and word-overlap score
Compare(status, known_status) ==
  LET status_lower == Lower(Chars[status])
      known_lower == Lower(Chars[known_status])
      status_words == WordSet(status_lower)
      known_words == WordSet(known_lower)
      overlap == Cardinality(status_words \cap known_words)
  IN [exact |-> status_lower = known_lower,
      substring |->
        IF IsSubstring(status_lower, known_lower) \/ IsSubstring(known_lower, status_lower)
        THEN Fraction(Min(Len(status_lower), Len(known_lower)),
                      Max(Len(status_lower), Len(known_lower)))
        ELSE Fraction(0, 1),
      overlap |->
        IF overlap > 0
        THEN Fraction(overlap, Max(Cardinality(status_words), Cardinality(known_words)))
        ELSE Fraction(0, 1)]

\* Compare tabulated once over the names of the model
CompareTable ==
  [status \in NameUniverse |->
     [known_status \in NameUniverse |-> Compare(status, known_status)]]

\* the (category, known_status) pairs in the order of the two nested loops
RECURSIVE KnownPairs(_, _)
KnownPairs(mappings, c) ==
  IF c = 0 THEN <<>>
  ELSE KnownPairs(mappings, c - 1) \o
       [i \in 1..Len(mappings[CatOrder[c]]) |->
          [category |-> CatOrder[c], known_status |-> mappings[CatOrder[c]][i]]]

\* the mutation of the replacement test that also replaces on equal scores
ImproveOrEqual(best, score, category) ==
  IF ~Greater(best.score, score) THEN [score |-> score, category |-> category]
  ELSE best

\* if score > best_score: best_score = score; best_category = category
Improve(best, score, category) ==
  IF Greater(score, best.score) THEN [score |-> score, category |-> category]
  ELSE best

\* the body of the inner loop below the exact-match test
LoopBody(best, status, pair) ==
  LET cmp == CompareTable[status][pair.known_status]
  IN Improve(Improve(best, cmp.substring, pair.category),
             cmp.overlap, pair.category)

\* (best_score, best_category) after the loop body has run, in order, for
\* the pairs r.lo..r.hi, starting from r.best.  The range is split in two
\* halves and passed as one record, which keeps the evaluation shallow.
RECURSIVE BestOver(_, _, _)
BestOver(status, pairs, r) ==
  IF r.lo > r.hi THEN r.best
  ELSE IF r.lo = r.hi THEN LoopBody(r.best, status, pairs[r.lo])
  ELSE LET mid == (r.lo + r.hi) \div 2
       IN BestOver(status, pairs,
            [lo |-> mid + 1, hi |-> r.hi,
             best |-> BestOver(status, pairs,
                               [lo |-> r.lo, hi |-> mid, best |-> r.best])])

\* best_score = 0, best_category = None
NoMatch == [score |-> Fraction(0, 1), category |-> "None"]

BestAfter(status, pairs, n) ==
  BestOver(status, pairs, [lo |-> 1, hi |-> n, best |-> NoMatch])

\* the mutation of the exact-match test that never returns early
NeverExact(name, known_status) == FALSE

\* if status_lower == known_lower
IsExactMatch(name, known_status) == CompareTable[name][known_status].exact

\* the category returned, "None" for None
find_best_status_match(name, mappings) ==
  LET pairs == KnownPairs(mappings, Len(CatOrder))
      exacts == {i \in 1..Len(pairs) : IsExactMatch(name, pairs[i].known_status)}
      best_found == BestAfter(name, pairs, Len(pairs))
  IN IF exacts # {}
     THEN pairs[CHOOSE i \in exacts : \A j \in exacts : i <= j].category
     ELSE IF AcceptScore(best_found.score) THEN best_found.category ELSE "None"

(***************************************************************************)
(* _discover_and_map_statuses, after the statuses of the data have been    *)
(* collected.  order is the order in which the set all_statuses iterates.  *)
(***************************************************************************)
\* any(status in mapping for mapping in enhanced_mappings.values())
already_mapped(mappings, status) ==
  \E c \in Categories : InList(status, mappings[c])

\* the mutation of the append that also files the status under waiting
MapOneAlsoWaiting(mappings, status) ==
  IF already_mapped(mappings, status) THEN mappings
  ELSE LET best_match == find_best_status_match(status, mappings)
       IN IF best_match # "None"
          THEN [[mappings EXCEPT ![best_match] = Append(@, status)]
                  EXCEPT !.waiting = Append(@, status)]
          ELSE mappings

\* one round of "for status in all_statuses"
MapOne(mappings, status) ==
  IF already_mapped(mappings, status) THEN mappings
  ELSE LET best_match == find_best_status_match(status, mappings)
       IN IF best_match # "None"
          THEN [mappings EXCEPT ![best_match] = Append(@, status)]
          ELSE mappings

RECURSIVE MapAll(_, _, _)
MapAll(mappings, order, n) ==
  IF n = 0 THEN mappings
  ELSE MapOne(MapAll(mappings, order, n - 1), order[n])

\* the mappings the enhanced mappings start from
DiscoveryBase(mappings) == mappings

enhance_mappings(mappings, order) == MapAll(DiscoveryBase(mappings), order, Len(order))

(***************************************************************************)
(* Rows of the DataFrame built by _create_dataframe.                       *)
(***************************************************************************)
Transition(f, t, c) == [from_status |-> f, to_status |-> t, changed |-> c]

Row(k, cs, cr, res, trs) ==
  [key |-> k, current_status |-> cs, created |-> cr, resolution_date |-> res,
   status_transitions |-> trs]

(***************************************************************************)
(* sorted(transitions, key=lambda x: x['changed'])                         *)
(***************************************************************************)
\* the sort compares timestamps; it raises as soon as two of them differ in
\* timezone awareness
SortRaises(trs) ==
  \E i, j \in 1..Len(trs) : ~Comparable(trs[i].changed, trs[j].changed)

\* x goes behind every element that is not later than it (the sort is stable)
InsertByChanged(srt, x) ==
  LET later == {i \in 1..Len(srt) : Instant(srt[i].changed) > Instant(x.changed)}
      pos == IF later = {} THEN Len(srt) + 1
             ELSE CHOOSE i \in later : \A j \in later : i <= j
  IN SubSeq(srt, 1, pos - 1) \o <<x>> \o SubSeq(srt, pos, Len(srt))

RECURSIVE SortPrefix(_, _)
SortPrefix(trs, n) ==
  IF n = 0 THEN <<>> ELSE InsertByChanged(SortPrefix(trs, n - 1), trs[n])

sorted_by_changed(trs) == SortPrefix(trs, Len(trs))

(***************************************************************************)
(* _calculate_issue_status_durations: one round of the loop over the       *)
(* sorted transitions, and the close of the final interval.  The walk      *)
(* state is (current_status, current_start, durations).                    *)
(***************************************************************************)
WalkStart == [current_status |-> "", current_start |-> NaT,
              durations |-> ZeroDurations]

\* the operands of a subtraction: both converted to UTC when their tz differ
NormalizedPair(start, end) ==
  IF tz(start) # tz(end) THEN <<ToUTC(start), ToUTC(end)>> ELSE <<start, end>>

\* "End previous status": the walk state after the elapsed time of the open
\* interval has been added; an exception leaves the durations as they are
ClosePrevious(mappings, ws, end) ==
  IF Truthy(ws.current_status) /\ notna(ws.current_start) /\ notna(end)
  THEN LET pair == NormalizedPair(ws.current_start, end)
       IN IF ~Comparable(pair[1], pair[2]) THEN ws
          ELSE [ws EXCEPT
                  !.current_start = pair[1],
                  !.durations = Accumulate(mappings, ws.durations,
                                           ws.current_status,
                                           Minus(pair[2], pair[1]))]
  ELSE ws

\* one round of "for transition in transitions"; on an exception the
\* "continue" skips the start of the new status
WalkTransition(mappings, ws, transition) ==
  LET open == Truthy(ws.current_status) /\ notna(ws.current_start)
                 /\ notna(transition.changed)
      pair == NormalizedPair(ws.current_start, transition.changed)
  IN IF open /\ ~Comparable(pair[1], pair[2]) THEN ws
     ELSE [ClosePrevious(mappings, ws, transition.changed) EXCEPT
             !.current_status = transition.to_status,
             !.current_start = transition.changed]

\* "Handle final status": resolution date if present, else now in the
\* timezone of current_start
FinalEndTime(ws, resolution_date) ==
  IF notna(resolution_date) THEN resolution_date
  ELSE TimestampNow(tz(ws.current_start))

CloseFinal(mappings, ws, resolution_date) ==
  IF Truthy(ws.current_status) /\ notna(ws.current_start)
  THEN ClosePrevious(mappings, ws, FinalEndTime(ws, resolution_date))
  ELSE ws

RECURSIVE WalkAll(_, _, _)
WalkAll(mappings, trs, n) ==
  IF n = 0 THEN WalkStart
  ELSE WalkTransition(mappings, WalkAll(mappings, trs, n - 1), trs[n])

\* the value returned by _calculate_issue_status_durations(issue)
calculate_issue_status_durations(mappings, issue) ==
  LET trs == issue.status_transitions
  IN IF trs = <<>> THEN ZeroDurations
     ELSE IF SortRaises(trs) THEN ZeroDurations
     ELSE LET srt == sorted_by_changed(trs)
          IN CloseFinal(mappings, WalkAll(mappings, srt, Len(srt)),
                        issue.resolution_date).durations

(***************************************************************************)
(* _calculate_lead_times, the body of the loop for one issue.              *)
(***************************************************************************)
\* first transition in list order whose to_status is of the given type
FirstOfType(mappings, trs, status_type) ==
  LET hits == {i \in 1..Len(trs) :
                 is_status_type(mappings, trs[i].to_status, status_type)}
  IN IF hits = {} THEN NaT
     ELSE trs[CHOOSE i \in hits : \A j \in hits : i <= j].changed

\* the same over reversed(trs)
LastOfType(mappings, trs, status_type) ==
  LET hits == {i \in 1..Len(trs) :
                 is_status_type(mappings, trs[i].to_status, status_type)}
  IN IF hits = {} THEN NaT
     ELSE trs[CHOOSE i \in hits : \A j \in hits : i >= j].changed

\* the transition list the two scans run over
LeadTimeScanList(issue) == issue.status_transitions

in_progress_date_of(mappings, issue) ==
  FirstOfType(mappings, LeadTimeScanList(issue), "in_progress")

done_date_of(mappings, issue) ==
  LastOfType(mappings, LeadTimeScanList(issue), "done")

\* a test that also keeps a lead time of zero
KeepNonNegative(lead_time) == lead_time >= 0

\* if lead_time > 0
KeepLeadTime(lead_time) == lead_time > 0

\* the list of lead times one issue contributes: empty or one element
issue_lead_times(mappings, issue) ==
  LET ip == in_progress_date_of(mappings, issue)
      dn == done_date_of(mappings, issue)
  IN IF notna(ip) /\ notna(dn)
     THEN LET pair == NormalizedPair(ip, dn)
              lead_time == Minus(pair[2], pair[1])
          IN IF Comparable(pair[1], pair[2]) /\ KeepLeadTime(lead_time)
             THEN <<lead_time>> ELSE <<>>
     ELSE <<>>

(***************************************************************************)
(* The issue records handed to analyze_issues.  A date string is missing   *)
(* (None or empty), unparseable, or denotes a wall-clock reading with or   *)
(* without a UTC offset.                                                   *)
(***************************************************************************)
NoDate == [kind |-> "none", wall |-> 0, aware |-> FALSE, off |-> 0]

BadDate == [kind |-> "bad", wall |-> 0, aware |-> FALSE, off |-> 0]

DateString(ts) == [kind |-> "ok", wall |-> ts.wall, aware |-> ts.aware, off |-> ts.off]

HistoryEntry(f, t, c) == [from_status |-> f, to_status |-> t, changed |-> c]

RawIssue(k, st, cr, res, hist) ==
  [key |-> k, status |-> st, created |-> cr, resolution_date |-> res,
   status_history |-> hist]

\* _parse_date_safe: None for a missing string and for one that
\* dateutil cannot parse, else the Timestamp with the string's reading and offset
parse_date_safe(date_str) ==
  IF date_str.kind = "ok"
  THEN [kind |-> "ts", wall |-> date_str.wall, aware |-> date_str.aware,
        off |-> date_str.off]
  ELSE NaT

\* a test that keeps every entry of the changelog
KeepEveryTransition(entry) == TRUE

\* if changed_date: status_transitions.append(...)
KeepTransition(entry) == notna(parse_date_safe(entry.changed))

ParsedTransition(entry) ==
  Transition(entry.from_status, entry.to_status, parse_date_safe(entry.changed))

\* the status_transitions list built for one issue
status_transitions_of(history) ==
  LET kept == SelectSeq(history, KeepTransition)
  IN [i \in 1..Len(kept) |-> ParsedTransition(kept[i])]

\* _create_dataframe: one row per issue record
create_dataframe(batch) ==
  [i \in 1..Len(batch) |->
     Row(batch[i].key, batch[i].status,
         parse_date_safe(batch[i].created),
         parse_date_safe(batch[i].resolution_date),
         status_transitions_of(batch[i].status_history))]

\* the set all_statuses collected by _discover_and_map_statuses
all_statuses_of(df) ==
  LET rows == 1..Len(df)
  IN {df[i].current_status : i \in {j \in rows : Truthy(df[j].current_status)}}
     \cup UNION {{df[i].status_transitions[k].from_status :
                    k \in {m \in 1..Len(df[i].status_transitions) :
                             Truthy(df[i].status_transitions[m].from_status)}}
                 : i \in rows}
     \cup UNION {{df[i].status_transitions[k].to_status :
                    k \in {m \in 1..Len(df[i].status_transitions) :
                             Truthy(df[i].status_transitions[m].to_status)}}
                 : i \in rows}

\* the orders in which a set can iterate
Orderings(S) ==
  {o \in [1..Cardinality(S) -> S] : \A i, j \in 1..Cardinality(S) : i # j => o[i] # o[j]}

RECURSIVE SetToSeq(_)
SetToSeq(S) ==
  IF S = {} THEN <<>>
  ELSE LET x == CHOOSE y \in S : TRUE IN <<x>> \o SetToSeq(S \ {x})

\* for status in all_statuses: the iteration order of a set of strings is
\* arbitrary.  The loop skips a status that is already mapped wherever it
\* comes, so those are put first and the others follow in every order.
IterationOrders(S, mappings) ==
  LET mapped == {status \in S : already_mapped(mappings, status)}
  IN {SetToSeq(mapped) \o o : o \in Orderings(S \ mapped)}

(***************************************************************************)
(* _get_timezone_aware_cutoff_date and the filter of analyze_issues.       *)
(***************************************************************************)
TicksPerMonth == 1   \* ticks that pd.DateOffset(months=1) takes off

\* ts - pd.DateOffset(months=months_back)
MinusMonths(ts, months) == [ts EXCEPT !.wall = @ - months * TicksPerMonth]

UTCZone == [aware |-> TRUE, off |-> 0]

NaiveZone == [aware |-> FALSE, off |-> 0]

\* df['created'].dropna().iloc[0], NaT when there is none
FirstValidCreated(df) ==
  LET valid == {i \in 1..Len(df) : notna(df[i].created)}
  IN IF valid = {} THEN NaT
     ELSE df[CHOOSE i \in valid : \A j \in valid : i <= j].created

\* a cutoff that is computed in UTC whatever the data
CutoffZoneUTC(df) == UTCZone

\* the timezone of the now() the cutoff is computed from
CutoffZone(df) ==
  IF Len(df) = 0 THEN UTCZone
  ELSE LET first_date == FirstValidCreated(df)
       IN IF ~notna(first_date) \/ ~first_date.aware THEN NaiveZone
          ELSE tz(first_date)

get_timezone_aware_cutoff_date(df, months) ==
  MinusMonths(TimestampNow(CutoffZone(df)), months)

\* df['created'] >= cutoff_date raises TypeError when a created date and the
\* cutoff differ in timezone awareness; a null created date compares False
FilterRaises(df, cutoff) ==
  \E i \in 1..Len(df) : notna(df[i].created) /\ ~Comparable(df[i].created, cutoff)

\* created >= cutoff_date
PassesCutoff(created, cutoff) ==
  notna(created) /\ Instant(created) >= Instant(cutoff)

PassesRow(row, cutoff) == PassesCutoff(row.created, cutoff)

filter_by_cutoff(df, cutoff) ==
  LET kept == {i \in 1..Len(df) : PassesRow(df[i], cutoff)}
      nth(n) == CHOOSE i \in kept : Cardinality({j \in kept : j < i}) = n - 1
  IN [n \in 1..Cardinality(kept) |-> df[nth(n)]]

(***************************************************************************)
(* The metric collections of analyze_issues.                               *)
(***************************************************************************)
\* _calculate_lead_times
RECURSIVE LeadTimesUpTo(_, _, _)
LeadTimesUpTo(mappings, df, n) ==
  IF n = 0 THEN <<>>
  ELSE LeadTimesUpTo(mappings, df, n - 1) \o issue_lead_times(mappings, df[n])

calculate_lead_times(mappings, df) == LeadTimesUpTo(mappings, df, Len(df))

\* if duration > 0: ...append(duration)
PositiveOnly(duration) == IF duration > 0 THEN <<duration>> ELSE <<>>

\* _calculate_status_durations
RECURSIVE StatusDurationsUpTo(_, _, _)
StatusDurationsUpTo(mappings, df, n) ==
  IF n = 0 THEN [k \in DurationKeys |-> <<>>]
  ELSE LET prev == StatusDurationsUpTo(mappings, df, n - 1)
           d == calculate_issue_status_durations(mappings, df[n])
       IN [k \in DurationKeys |-> prev[k] \o PositiveOnly(d[k])]

calculate_status_durations(mappings, df) ==
  StatusDurationsUpTo(mappings, df, Len(df))

CycleKeys == DurationKeys \cup {"total"}

\* sum(status_durations.values())
TotalOf(d) == d["in_progress"] + d["testing"] + d["waiting"] + d["validation"]

\* _calculate_cycle_times
RECURSIVE CycleTimesUpTo(_, _, _)
CycleTimesUpTo(mappings, df, n) ==
  IF n = 0 THEN [k \in CycleKeys |-> <<>>]
  ELSE LET prev == CycleTimesUpTo(mappings, df, n - 1)
           d == calculate_issue_status_durations(mappings, df[n])
       IN [k \in CycleKeys |->
             prev[k] \o PositiveOnly(IF k = "total" THEN TotalOf(d) ELSE d[k])]

calculate_cycle_times(mappings, df) == CycleTimesUpTo(mappings, df, Len(df))

\* the keys of the dict built by _calculate_summary_metrics; the values are
\* numpy statistics of the non-empty lists
metric_keys(lead_times, cycle_times) ==
  (IF lead_times # <<>> THEN {"lead_time"} ELSE {})
  \cup {k \in CycleKeys : cycle_times[k] # <<>>}

EmptyDict == [k \in {} |-> <<>>]

\* _empty_analysis_result
empty_analysis_result ==
  [raised |-> FALSE, metrics |-> {}, lead_times |-> <<>>,
   cycle_times |-> EmptyDict, status_durations |-> EmptyDict,
   analysis_period |-> 0, total_issues |-> 0]

\* a result that counts only the issues that gave a lead time
ResultCountingSamples(mappings, df_filtered, months) ==
  LET lt == calculate_lead_times(mappings, df_filtered)
      ct == calculate_cycle_times(mappings, df_filtered)
  IN [raised |-> FALSE, metrics |-> metric_keys(lt, ct), lead_times |-> lt,
      cycle_times |-> ct,
      status_durations |-> calculate_status_durations(mappings, df_filtered),
      analysis_period |-> months, total_issues |-> Len(lt)]

\* the dict returned at the end of analyze_issues; 'distributions' holds
\* statistics of the same lists and is left out, and analysis_period is
\* kept as the number of months
analysis_result(mappings, df_filtered, months) ==
  LET lt == calculate_lead_times(mappings, df_filtered)
      ct == calculate_cycle_times(mappings, df_filtered)
  IN [raised |-> FALSE, metrics |-> metric_keys(lt, ct), lead_times |-> lt,
      cycle_times |-> ct,
      status_durations |-> calculate_status_durations(mappings, df_filtered),
      analysis_period |-> months, total_issues |-> Len(df_filtered)]

\* the call ended with an exception instead of a return value
RaisedTypeError ==
  [raised |-> TRUE, metrics |-> {}, lead_times |-> <<>>,
   cycle_times |-> EmptyDict, status_durations |-> EmptyDict,
   analysis_period |-> 0, total_issues |-> 0]

(***************************************************************************)
(* SprintAnalyzer: the weekly velocity samples.  A resolution date is a    *)
(* calendar day, absent (NoDate) or a string dateutil cannot parse         *)
(* (BadDate).                                                              *)
(***************************************************************************)
CalendarDay(y, m, d) == [kind |-> "ok", year |-> y, month |-> m, day |-> d]

\* date.toordinal(): day 1 is 0001-01-01, a Monday
ymd2ord(date) ==
  LET y == date.year - 1
      leap == /\ date.year % 4 = 0
              /\ date.year % 100 # 0 \/ date.year % 400 = 0
      days_before_month ==
        <<0, 31, 59, 90, 120, 151, 181, 212, 243, 273, 304, 334>>[date.month]
        + (IF date.month > 2 /\ leap THEN 1 ELSE 0)
  IN y * 365 + y \div 4 - y \div 100 + y \div 400 + days_before_month + date.day

\* date.isocalendar(): ISO year and ISO week number; isoweek1monday is the
\* ordinal of the Monday that starts ISO week 1 of a year
isocalendar(date) ==
  LET isoweek1monday(year) ==
        LET firstday == ymd2ord(CalendarDay(year, 1, 1))
            firstweekday == (firstday + 6) % 7
        IN IF firstweekday > 3 THEN firstday - firstweekday + 7
           ELSE firstday - firstweekday
      today == ymd2ord(date)
      week == (today - isoweek1monday(date.year)) \div 7
  IN IF today < isoweek1monday(date.year)
     THEN [year |-> date.year - 1,
           week |-> (today - isoweek1monday(date.year - 1)) \div 7 + 1]
     ELSE IF week >= 52 /\ today >= isoweek1monday(date.year + 1)
     THEN [year |-> date.year + 1, week |-> 1]
     ELSE [year |-> date.year, week |-> week + 1]

\* week_key = f"{date_obj.year}-W{date_obj.isocalendar()[1]:02d}"
week_key(date_obj) == <<date_obj.year, isocalendar(date_obj).week>>

\* weekly_counts after the first n issues, in insertion order of the keys
RECURSIVE WeeklyCounts(_, _)
WeeklyCounts(dates, n) ==
  IF n = 0 THEN <<>>
  ELSE LET prev == WeeklyCounts(dates, n - 1)
           resolution_date == dates[n]
       IN IF resolution_date.kind # "ok" THEN prev
          ELSE LET k == week_key(resolution_date)
               IN IF \E i \in 1..Len(prev) : prev[i].key = k
                  THEN [i \in 1..Len(prev) |->
                          IF prev[i].key = k
                          THEN [key |-> k, count |-> prev[i].count + 1]
                          ELSE prev[i]]
                  ELSE Append(prev, [key |-> k, count |-> 1])

\* _group_issues_by_week: list(weekly_counts.values())
group_issues_by_week(dates) ==
  LET weekly_counts == WeeklyCounts(dates, Len(dates))
  IN [i \in 1..Len(weekly_counts) |-> weekly_counts[i].count]

\* the mutation of the percentile that counts the position from the top
MirroredPercentile(a, q) ==
  LET kth(k) == CHOOSE v \in {a[i] : i \in 1..Len(a)} :
                  /\ Cardinality({i \in 1..Len(a) : a[i] < v}) < k
                  /\ Cardinality({i \in 1..Len(a) : a[i] <= v}) >= k
      position == (100 - q) * (Len(a) - 1)
      below == position \div 100 + 1
      fraction == position % 100
  IN IF fraction = 0 THEN 100 * kth(below)
     ELSE 100 * kth(below) + fraction * (kth(below + 1) - kth(below))

\* np.percentile(a, q), in hundredths: linear interpolation between the
\* two order statistics around position q/100 * (len(a) - 1)
percentile(a, q) ==
  LET kth(k) == CHOOSE v \in {a[i] : i \in 1..Len(a)} :
                  /\ Cardinality({i \in 1..Len(a) : a[i] < v}) < k
                  /\ Cardinality({i \in 1..Len(a) : a[i] <= v}) >= k
      position == q * (Len(a) - 1)
      below == position \div 100 + 1
      fraction == position % 100
  IN IF fraction = 0 THEN 100 * kth(below)
     ELSE 100 * kth(below) + fraction * (kth(below + 1) - kth(below))

\* the mutation of the draw that takes any whole number up to the largest
\* weekly count
ChoiceUpToMaximum(weekly_velocities) ==
  0..(CHOOSE v \in {weekly_velocities[i] : i \in 1..Len(weekly_velocities)} :
        \A i \in 1..Len(weekly_velocities) : v >= weekly_velocities[i])

\* the values np.random.choice(weekly_velocities) can return
random_choice(weekly_velocities) ==
  {weekly_velocities[i] : i \in 1..Len(weekly_velocities)}

\* monte_carlo_forecast of a history without weekly samples: {}
NoForecast == [percentiles |-> <<>>]

\* the dictionary _run_monte_carlo_simulation returns for its draws
monte_carlo_results(simulation_results) ==
  LET RECURSIVE sum(_)
      sum(n) == IF n = 0 THEN 0 ELSE sum(n - 1) + simulation_results[n]
  IN [percentiles |-> [p10 |-> percentile(simulation_results, 10),
                       p25 |-> percentile(simulation_results, 25),
                       p50 |-> percentile(simulation_results, 50),
                       p75 |-> percentile(simulation_results, 75),
                       p90 |-> percentile(simulation_results, 90)],
      mean |-> Fraction(sum(Len(simulation_results)), Len(simulation_results))]

\* what _calculate_historical_velocity returns without weekly samples
no_velocity(total) ==
  [average_velocity |-> Fraction(0, 1), total_historical_issues |-> total,
   monte_carlo_forecast |-> NoForecast]

\* what _calculate_historical_velocity returns with weekly samples
velocity(dates, weekly_story_counts, simulation_results) ==
  LET RECURSIVE sum(_)
      sum(n) == IF n = 0 THEN 0 ELSE sum(n - 1) + weekly_story_counts[n]
  IN [average_velocity |-> Fraction(sum(Len(weekly_story_counts)),
                                    Len(weekly_story_counts)),
      total_historical_issues |-> Len(dates),
      monte_carlo_forecast |-> monte_carlo_results(simulation_results)]

(***************************************************************************)
(* SprintAnalyzer: the forecast.  Percentiles are in hundredths of a story *)
(* per week; a workload carries the fields of _analyze_sprint_workload the *)
(* forecast reads, completed_issues being the number of issues_detail in a *)
(* completion status.                                                      *)
(***************************************************************************)
\* the mutation of the ladder that compares strictly
LadderStrict(remaining_stories, monte_carlo_data, multiplier) ==
  LET percentiles == monte_carlo_data.percentiles
  IN IF percentiles = <<>> THEN 50
     ELSE IF remaining_stories = 0 THEN 100
     ELSE IF percentiles.p90 * multiplier > 100 * remaining_stories THEN 90
     ELSE IF percentiles.p50 * multiplier > 100 * remaining_stories THEN 70
     ELSE IF percentiles.p10 * multiplier > 100 * remaining_stories THEN 30
     ELSE 10

\* the mutation of the ladder that looks at the median first
LadderMedianFirst(remaining_stories, monte_carlo_data, multiplier) ==
  LET percentiles == monte_carlo_data.percentiles
  IN IF percentiles = <<>> THEN 50
     ELSE IF remaining_stories = 0 THEN 100
     ELSE IF percentiles.p50 * multiplier >= 100 * remaining_stories THEN 70
     ELSE IF percentiles.p90 * multiplier >= 100 * remaining_stories THEN 90
     ELSE IF percentiles.p10 * multiplier >= 100 * remaining_stories THEN 30
     ELSE 10

\* _calculate_monte_carlo_probability
calculate_monte_carlo_probability(remaining_stories, monte_carlo_data, multiplier) ==
  LET percentiles == monte_carlo_data.percentiles
  IN IF percentiles = <<>> THEN 50
     ELSE IF remaining_stories = 0 THEN 100
     ELSE IF percentiles.p90 * multiplier >= 100 * remaining_stories THEN 90
     ELSE IF percentiles.p50 * multiplier >= 100 * remaining_stories THEN 70
     ELSE IF percentiles.p10 * multiplier >= 100 * remaining_stories THEN 30
     ELSE 10

\* the mutation of the risk thresholds that calls two points HIGH
HighFromTwo(risk_factors) ==
  IF risk_factors >= 2 THEN "HIGH"
  ELSE IF risk_factors >= 1 THEN "MEDIUM"
  ELSE "LOW"

\* the last lines of _calculate_risk_level
risk_level_of(risk_factors) ==
  IF risk_factors >= 3 THEN "HIGH"
  ELSE IF risk_factors >= 1 THEN "MEDIUM"
  ELSE "LOW"

\* the mutation of the risk level that leaves the completion probability
\* out of the points
RiskWithoutProbability(remaining_hours, remaining_days, completion_probability, workload) ==
  LET unestimated_ratio ==
        Fraction(workload.unestimated_issues, Max(workload.total_issues, 1))
  IN risk_level_of(
       (IF Greater(remaining_days, Fraction(10, 1)) THEN 2
        ELSE IF Greater(remaining_days, Fraction(5, 1)) THEN 1 ELSE 0)
       + (IF workload.overall_progress < 30 /\ remaining_hours > 100 THEN 1 ELSE 0)
       + (IF Greater(unestimated_ratio, Fraction(3, 10)) THEN 1 ELSE 0))

\* _calculate_risk_level
calculate_risk_level(remaining_hours, remaining_days, completion_probability, workload) ==
  LET unestimated_ratio ==
        Fraction(workload.unestimated_issues, Max(workload.total_issues, 1))
  IN risk_level_of(
       (IF Greater(remaining_days, Fraction(10, 1)) THEN 2
        ELSE IF Greater(remaining_days, Fraction(5, 1)) THEN 1 ELSE 0)
       + (IF completion_probability < 60 THEN 2
          ELSE IF completion_probability < 80 THEN 1 ELSE 0)
       + (IF workload.overall_progress < 30 /\ remaining_hours > 100 THEN 1 ELSE 0)
       + (IF Greater(unestimated_ratio, Fraction(3, 10)) THEN 1 ELSE 0))

\* the call left _generate_forecast_with_dates with a ZeroDivisionError
RaisedZeroDivisionError ==
  [raised |-> TRUE, remaining_stories |-> 0, estimated_weeks_needed |-> Fraction(0, 1),
   probability_of_completion |-> 0, risk_level |-> "None"]

\* _generate_forecast_with_dates for an analyzer of the given capacity
generate_forecast_with_dates(team_size, hours_per_day, workload, historical) ==
  LET remaining_hours == workload.total_remaining_estimate
      average_velocity == historical.average_velocity
      remaining_days == Fraction(remaining_hours, 8)
      remaining_stories == workload.total_issues - workload.completed_issues
      monte_carlo_data == historical.monte_carlo_forecast
      mc_velocity == monte_carlo_data.percentiles.p50 * 3
      team_capacity_per_day == team_size * hours_per_day
      team_capacity_per_week == team_capacity_per_day * 5
      forecast_result(weeks, probability_of_completion) ==
        [raised |-> FALSE,
         remaining_stories |-> remaining_stories,
         estimated_weeks_needed |-> weeks,
         probability_of_completion |-> probability_of_completion,
         risk_level |-> calculate_risk_level(remaining_hours, remaining_days,
                                             probability_of_completion, workload)]
  IN IF Greater(average_velocity, Fraction(0, 1)) /\ monte_carlo_data # NoForecast
     THEN forecast_result(
            IF mc_velocity > 0 THEN Fraction(100 * remaining_stories, mc_velocity)
            ELSE Fraction(remaining_hours * average_velocity.den, average_velocity.num),
            calculate_monte_carlo_probability(remaining_stories, monte_carlo_data, 2))
     ELSE IF team_capacity_per_week = 0 THEN RaisedZeroDivisionError
     ELSE forecast_result(Fraction(remaining_hours, team_capacity_per_week), 70)

(***************************************************************************)
(* _fit_gaussian_distribution.  A p-value is absent (None) or a number of  *)
(* hundredths; the summary is the returned dictionary with the fields that *)
(* depend on the size of the data, its extremes and the normality test.    *)
(***************************************************************************)
\* p_value = None
NoPValue == [exists |-> FALSE, hundredths |-> 0]

\* the mutation of the normality flag that is never False
NormalOrNone(p) ==
  IF p.exists /\ p.hundredths > 5 THEN "True" ELSE "None"

\* p_value > 0.05 if p_value else None: None and 0.0 are falsy
is_normal(p) ==
  IF p.exists /\ p.hundredths # 0
  THEN IF p.hundredths > 5 THEN "True" ELSE "False"
  ELSE "None"

\* the mutation of the summary that returns zeroed fields for no data
ZeroedForNoData(data, p) ==
  [count |-> Len(data),
   min |-> IF data = <<>> THEN 0
           ELSE CHOOSE v \in {data[i] : i \in 1..Len(data)} :
                  \A i \in 1..Len(data) : v <= data[i],
   max |-> IF data = <<>> THEN 0
           ELSE CHOOSE v \in {data[i] : i \in 1..Len(data)} :
                  \A i \in 1..Len(data) : v >= data[i],
   normality_test_p_value |-> p,
   is_normal |-> is_normal(p)]

\* the dictionary _fit_gaussian_distribution returns when the normality
\* test has given p
fit_gaussian_distribution(data, p) ==
  IF data = <<>> THEN EmptyDict
  ELSE [count |-> Len(data),
        min |-> CHOOSE v \in {data[i] : i \in 1..Len(data)} :
                  \A i \in 1..Len(data) : v <= data[i],
        max |-> CHOOSE v \in {data[i] : i \in 1..Len(data)} :
                  \A i \in 1..Len(data) : v >= data[i],
        normality_test_p_value |-> p,
        is_normal |-> is_normal(p)]

(***************************************************************************)
(* JiraClient._process_issue.  A raw issue is the JSON of the search API:  *)
(* its fields are present or missing, and its changelog is absent, a       *)
(* dictionary without histories, or a list of histories, each with its     *)
(* created string and its items.                                           *)
(***************************************************************************)
ChangelogItem(field, fromString, toString) ==
  [field |-> field, fromString |-> fromString, toString |-> toString]

ChangelogHistory(created, items) == [created |-> created, items |-> items]

NoChangelog == [kind |-> "absent", histories |-> <<>>]

ChangelogWithoutHistories == [kind |-> "no_histories", histories |-> <<>>]

Changelog(histories) == [kind |-> "histories", histories |-> histories]

\* the except branch: return None
NotProcessed == [kind |-> "None", key |-> "", status_history |-> <<>>]

\* a test that keeps the items of every field
KeepEveryItem(item) == TRUE

\* if item.get('field') == 'status'
is_status_item(item) == item.field = "status"

\* the entries appended for one history, each with the history's created
status_entries_of(history) ==
  LET kept == SelectSeq(history.items, is_status_item)
  IN [i \in 1..Len(kept) |->
        HistoryEntry(kept[i].fromString, kept[i].toString, history.created)]

RECURSIVE StatusHistoryUpTo(_, _)
StatusHistoryUpTo(histories, n) ==
  IF n = 0 THEN <<>>
  ELSE StatusHistoryUpTo(histories, n - 1) \o status_entries_of(histories[n])

\* _process_issue(issue): the key and the status_history of the record
process_issue(raw) ==
  IF ~raw.has_fields THEN NotProcessed
  ELSE [kind |-> "record", key |-> raw.key,
        status_history |->
          IF raw.changelog.kind = "histories"
          THEN StatusHistoryUpTo(raw.changelog.histories,
                                 Len(raw.changelog.histories))
          ELSE <<>>]

(***************************************************************************)
(* SprintAnalyzer: the sprint cache.  A sprint of the board has an id, a   *)
(* name, an end date string (or none) and an age in days; a cache key      *)
(* f"{name}_{months}" is the pair of its two parts.                        *)
(***************************************************************************)
BoardSprint(id, name, end_date, age) ==
  [id |-> id, name |-> name, end_date |-> end_date, age |-> age]

\* an endDate string of the agile API: a day and an hour
EndDate(y, m, d, h) == [kind |-> "ok", year |-> y, month |-> m, day |-> d, hour |-> h]

NoEndDate == [kind |-> "none", year |-> 0, month |-> 0, day |-> 0, hour |-> 0]

\* SimpleSprintRetriever._is_recent_sprint against now - days_back
is_recent_sprint(sprint, days_back) ==
  sprint.end_date.kind = "ok" => sprint.age <= days_back

\* get_sprints_from_same_board: nothing when no board lists the sprint,
\* else the board's recent sprints and always the current one
get_sprints_from_same_board(board, sprint_name, days_back) ==
  IF \A i \in 1..Len(board) : board[i].name # sprint_name THEN <<>>
  ELSE LET keep(sprint) == sprint.name = sprint_name
                             \/ is_recent_sprint(sprint, days_back)
       IN SelectSeq(board, keep)

\* cache_key = f"{current_sprint_name}_{months_back}"
similar_sprints_key(current_sprint_name, months_back) ==
  <<current_sprint_name, months_back>>

\* cache_key = f"{sprint_name}_6"
sprint_details_key(sprint_name, months_back) == <<sprint_name, 6>>

\* sprint_details = {}
NoSprintDetails == BoardSprint(0, "", NoEndDate, 0)

\* _get_sprint_details for a sprint given by name: the first sprint of the
\* cached list with that name, or {}
get_sprint_details(cache, sprint_name, months_back) ==
  LET cache_key == sprint_details_key(sprint_name, months_back)
  IN IF cache_key \in DOMAIN cache
          /\ \E i \in 1..Len(cache[cache_key]) : cache[cache_key][i].name = sprint_name
     THEN LET sprints == cache[cache_key]
              first == CHOOSE i \in 1..Len(sprints) :
                         /\ sprints[i].name = sprint_name
                         /\ \A j \in 1..(i - 1) : sprints[j].name # sprint_name
          IN sprints[first]
     ELSE NoSprintDetails

\* _get_similar_sprints: the cache after the lookup of the call's key
cache_sprints(cache, board, current_sprint_name, months_back) ==
  LET cache_key == similar_sprints_key(current_sprint_name, months_back)
  IN IF cache_key \in DOMAIN cache THEN cache
     ELSE [k \in DOMAIN cache \cup {cache_key} |->
             IF k = cache_key
             THEN get_sprints_from_same_board(board, current_sprint_name,
                                              months_back * 30)
             ELSE cache[k]]

\* planned_end_date of _calculate_date_forecast: the day of the end date,
\* None without one
planned_end_date_of(sprint_details) ==
  IF sprint_details.end_date.kind = "ok"
  THEN CalendarDay(sprint_details.end_date.year, sprint_details.end_date.month,
                   sprint_details.end_date.day)
  ELSE NoDate

(***************************************************************************)
(* State.                                                                  *)
(***************************************************************************)
VARIABLES
  status_mappings,   \* self.status_mappings of the DataAnalyzer instance
  issue,             \* the DataFrame row handed to the per-issue functions
  phase,             \* position in the per-issue computation
  transitions,       \* local: the sorted transitions
  idx,               \* local: index of the next transition of the loop
  current_status,    \* local of _calculate_issue_status_durations
  current_start,     \* local of _calculate_issue_status_durations
  durations,         \* local of _calculate_issue_status_durations
  in_progress_date,  \* local of _calculate_lead_times
  done_date,         \* local of _calculate_lead_times
  lead_times,        \* the lead times collected for the row
  pc,                \* "idle", or "returned" right after analyze_issues
  calls,             \* analyze_issues calls made on the instance so far
  issues,            \* argument of the last analyze_issues call
  months_back,       \* argument of the last analyze_issues call
  df,                \* local: the DataFrame of the last call
  status_order,      \* the order in which all_statuses iterated
  cutoff_date,       \* local: the cutoff of the last call
  df_filtered,       \* local: the rows that passed the cutoff
  result,            \* what the last call returned or raised
  status,            \* argument of _find_best_status_match
  known_index,       \* position of the two nested loops in the known statuses
  best,              \* locals best_score and best_category
  match_pc,          \* position in the status currently being auto-mapped
  best_match,        \* what _find_best_status_match returned
  team_size,         \* self.team_size of the SprintAnalyzer instance
  sprint_days,       \* self.sprint_days
  hours_per_day,     \* self.hours_per_day
  historical_issues, \* the resolution dates of the historical issues
  weekly_story_counts, \* local of _calculate_historical_velocity
  simulation_results,  \* local of _run_monte_carlo_simulation
  historical,        \* what _calculate_historical_velocity returned
  workload,          \* argument of _generate_forecast_with_dates
  forecast,          \* what _generate_forecast_with_dates returned or raised
  sprint_pc,         \* position in the sprint analysis
  remaining_stories, \* argument of _calculate_monte_carlo_probability
  monte_carlo_data,  \* argument of _calculate_monte_carlo_probability
  multiplier,        \* argument of _calculate_monte_carlo_probability
  probability,       \* what _calculate_monte_carlo_probability returned
  fit_data,          \* argument data of _fit_gaussian_distribution
  p_value,           \* local of _fit_gaussian_distribution
  fit_result,        \* what _fit_gaussian_distribution returned
  call_pc,           \* position in the function called on its own
  raw_issue,         \* argument issue of JiraClient._process_issue
  processed,         \* what _process_issue returned
  thread_pc,         \* position of each interleaved analyze_issues invocation
  thread_df,         \* local df of each invocation
  enhanced_mappings, \* what _discover_and_map_statuses returned to each
  mappings_read,     \* the self.status_mappings each calculation has read
  status_durations,  \* local status_durations of each invocation
  sprint_name,       \* argument of analyze_sprint
  historical_months, \* argument of analyze_sprint
  sprint_cache,      \* self._sprint_cache
  sprint_details,    \* local of analyze_sprint
  date_forecast,     \* planned_end_date of the forecast's date_forecast
  analyze_pc,        \* position in analyze_sprint
  analyses           \* analyze_sprint calls made on the instance so far

issueVars == <<issue, phase, transitions, idx, current_status, current_start,
               durations, in_progress_date, done_date, lead_times>>

batchVars == <<pc, calls, issues, months_back, df, status_order, cutoff_date,
               df_filtered, result>>

matchVars == <<status, known_index, best, match_pc, best_match>>

sprintVars == <<team_size, sprint_days, hours_per_day, historical_issues,
                weekly_story_counts, simulation_results, historical, workload,
                forecast, sprint_pc>>

callVars == <<remaining_stories, monte_carlo_data, multiplier, probability,
              fit_data, p_value, fit_result, call_pc>>

clientVars == <<raw_issue, processed>>

threadVars == <<thread_pc, thread_df, enhanced_mappings, mappings_read,
                status_durations>>

cacheVars == <<sprint_name, historical_months, sprint_cache, sprint_details,
               date_forecast, analyze_pc, analyses>>

vars == <<status_mappings, issueVars, batchVars, matchVars, sprintVars, callVars,
          clientVars, threadVars, cacheVars>>

\* no status is being matched
NoMatching ==
  /\ status = ""
  /\ known_index = 0
  /\ best = NoMatch
  /\ match_pc = "unused"
  /\ best_match = "None"

\* the fields of _analyze_sprint_workload the forecast reads
Workload(total, completed, unestimated, remaining, progress) ==
  [total_issues |-> total, completed_issues |-> completed,
   unestimated_issues |-> unestimated, total_remaining_estimate |-> remaining,
   overall_progress |-> progress]

\* SprintAnalyzer.__init__, before any history has been looked at
NewSprintAnalyzer ==
  /\ team_size = 8
  /\ sprint_days = 10
  /\ hours_per_day = 8
  /\ weekly_story_counts = <<>>
  /\ simulation_results = <<>>
  /\ historical = no_velocity(0)
  /\ workload = Workload(0, 0, 0, 0, 0)
  /\ forecast = [RaisedZeroDivisionError EXCEPT !.raised = FALSE]

NoSprint ==
  /\ NewSprintAnalyzer
  /\ historical_issues = <<>>
  /\ sprint_pc = "unused"

\* the two invocations that may interleave on one DataAnalyzer
Threads == {1, 2}

\* no issue is being processed by the client
NoProcessing ==
  /\ raw_issue = [key |-> "", has_fields |-> FALSE, changelog |-> NoChangelog]
  /\ processed = NotProcessed

\* no analyze_issues invocation is running beside another
NoThreads ==
  /\ thread_pc = [t \in Threads |-> "unused"]
  /\ thread_df = [t \in Threads |-> <<>>]
  /\ enhanced_mappings = [t \in Threads |-> <<>>]
  /\ mappings_read = [t \in Threads |-> <<>>]
  /\ status_durations = [t \in Threads |-> <<>>]

\* SprintAnalyzer.__init__: self._sprint_cache = {}
NoAnalysis ==
  /\ sprint_name = ""
  /\ historical_months = 0
  /\ sprint_cache = <<>>
  /\ sprint_details = NoSprintDetails
  /\ date_forecast = NoDate
  /\ analyze_pc = "unused"
  /\ analyses = 0

\* no function is being called on its own
NoDirectCall ==
  /\ remaining_stories = 0
  /\ monte_carlo_data = NoForecast
  /\ multiplier = 1
  /\ probability = 0
  /\ fit_data = <<>>
  /\ p_value = NoPValue
  /\ fit_result = EmptyDict
  /\ call_pc = "unused"


NoCall ==
  /\ pc = "idle"
  /\ calls = 0
  /\ issues = <<>>
  /\ months_back = 0
  /\ df = <<>>
  /\ status_order = <<>>
  /\ cutoff_date = NaT
  /\ df_filtered = <<>>
  /\ result = empty_analysis_result

(***************************************************************************)
(* The per-issue computation on one row, with a fresh analyzer.            *)
(***************************************************************************)
RowStatuses == {"In Progress", "Testing", "Done", ""}

RowTransitions == {Transition("", s, c) : s \in RowStatuses, c \in Timestamps}

\* resolution dates: none, naive, aware and early, aware with an offset
ResolutionDates == {NaT, Naive(MaxT), Aware(0, 0), Aware(MaxT, 1)}

\* the rows handed to the per-issue functions: they have passed the cutoff
\* filter, so their created date is valid
IssueRows ==
  {Row("K", "Done", Aware(MaxT, 0), res, trs) :
     res \in ResolutionDates,
     trs \in UNION {[1..n -> RowTransitions] : n \in 0..MaxTrans}}

InitIssue ==
  /\ status_mappings = SeedMappings
  /\ issue \in IssueRows
  /\ phase = "lead_time"
  /\ transitions = <<>>
  /\ idx = 0
  /\ current_status = ""
  /\ current_start = NaT
  /\ durations = ZeroDurations
  /\ in_progress_date = NaT
  /\ done_date = NaT
  /\ lead_times = <<>>
  /\ NoCall
  /\ NoMatching
  /\ NoSprint
  /\ NoProcessing
  /\ NoThreads
  /\ NoAnalysis
  /\ NoDirectCall

\* _calculate_lead_times for the row
CalculateLeadTime ==
  /\ phase = "lead_time"
  /\ in_progress_date' = in_progress_date_of(status_mappings, issue)
  /\ done_date' = done_date_of(status_mappings, issue)
  /\ lead_times' = lead_times \o issue_lead_times(status_mappings, issue)
  /\ phase' = "sort"
  /\ UNCHANGED <<status_mappings, issue, transitions, idx, current_status,
                 current_start, durations, batchVars, matchVars, sprintVars, callVars,
                 clientVars, threadVars, cacheVars>>

\* _calculate_issue_status_durations up to the loop: the early returns and
\* the sort
SortTransitions ==
  /\ phase = "sort"
  /\ IF issue.status_transitions = <<>> \/ SortRaises(issue.status_transitions)
     THEN /\ phase' = "returned"
          /\ UNCHANGED transitions
     ELSE /\ phase' = "walk"
          /\ transitions' = sorted_by_changed(issue.status_transitions)
  /\ idx' = 1
  /\ current_status' = WalkStart.current_status
  /\ current_start' = WalkStart.current_start
  /\ durations' = WalkStart.durations
  /\ UNCHANGED <<status_mappings, issue, in_progress_date, done_date,
                 lead_times, batchVars, matchVars, sprintVars, callVars,
                 clientVars, threadVars, cacheVars>>

WalkState == [current_status |-> current_status,
              current_start |-> current_start, durations |-> durations]

\* one round of the loop
WalkStep ==
  /\ phase = "walk"
  /\ idx <= Len(transitions)
  /\ LET ws == WalkTransition(status_mappings, WalkState, transitions[idx])
     IN /\ current_status' = ws.current_status
        /\ current_start' = ws.current_start
        /\ durations' = ws.durations
  /\ idx' = idx + 1
  /\ UNCHANGED <<status_mappings, issue, phase, transitions, in_progress_date,
                 done_date, lead_times, batchVars, matchVars, sprintVars, callVars,
                 clientVars, threadVars, cacheVars>>

\* the close of the final interval and the return
CloseFinalInterval ==
  /\ phase = "walk"
  /\ idx > Len(transitions)
  /\ LET ws == CloseFinal(status_mappings, WalkState, issue.resolution_date)
     IN /\ current_status' = ws.current_status
        /\ current_start' = ws.current_start
        /\ durations' = ws.durations
  /\ phase' = "returned"
  /\ UNCHANGED <<status_mappings, issue, transitions, idx, in_progress_date,
                 done_date, lead_times, batchVars, matchVars, sprintVars, callVars,
                 clientVars, threadVars, cacheVars>>

NextIssue ==
  \/ CalculateLeadTime
  \/ SortTransitions
  \/ WalkStep
  \/ CloseFinalInterval

SpecIssue == InitIssue /\ [][NextIssue]_vars

(***************************************************************************)
(* analyze_issues called repeatedly on one DataAnalyzer instance.          *)
(***************************************************************************)
MaxIssues == 2     \* issue records per batch
MaxCalls == 2      \* analyze_issues calls on the instance
MaxMonths == 1     \* months_back ranges over 1..MaxMonths

\* a created date that no cutoff of the model filters out
RecentDate == DateString(Aware(MaxT, 0))

\* created dates: missing, unparseable, naive and aware, old and recent
CreatedDates ==
  {NoDate, BadDate, DateString(Naive(0)), DateString(Naive(MaxT)),
   DateString(Aware(0, 0)), DateString(Aware(MaxT, 1))}

ToInProgress == HistoryEntry("To Do", "In Progress", DateString(Aware(0, 0)))

ToDone == HistoryEntry("In Progress", "Done", DateString(Aware(MaxT, 0)))

ToDoneEarly == HistoryEntry("In Progress", "Done", DateString(Aware(0, 0)))

ToDoneUnparseable == HistoryEntry("In Progress", "Done", BadDate)

Histories ==
  {<<ToInProgress>>, <<ToInProgress, ToDone>>, <<ToInProgress, ToDoneEarly>>,
   <<ToInProgress, ToDoneUnparseable>>, <<ToDoneUnparseable, ToInProgress, ToDone>>}

\* the issue records of the model: every kind of created date, resolution
\* dates, histories, and records whose status the seed dictionary lacks
RawIssues ==
  {RawIssue("K", "Done", cr, NoDate, <<>>) : cr \in CreatedDates}
  \cup {RawIssue("K", "Done", RecentDate, res, <<>>) : res \in {BadDate, RecentDate}}
  \cup {RawIssue("K", "Done", RecentDate, NoDate, h) : h \in Histories}
  \cup {RawIssue("K", st, RecentDate, NoDate, <<>>) : st \in {"Ready for QA", "Ready"}}

Batches == UNION {[1..n -> RawIssues] : n \in 0..MaxIssues}

NoRow == Row("", "", NaT, NaT, <<>>)

Init ==
  /\ status_mappings = SeedMappings
  /\ NoCall
  /\ issue = NoRow
  /\ phase = "unused"
  /\ transitions = <<>>
  /\ idx = 0
  /\ current_status = ""
  /\ current_start = NaT
  /\ durations = ZeroDurations
  /\ in_progress_date = NaT
  /\ done_date = NaT
  /\ lead_times = <<>>
  /\ NoMatching
  /\ NoSprint
  /\ NoProcessing
  /\ NoThreads
  /\ NoAnalysis
  /\ NoDirectCall

\* one call analyze_issues(batch, months), from its first line to its
\* return or to the exception that leaves it
AnalyzeIssues ==
  /\ pc = "idle"
  /\ calls < MaxCalls
  /\ \E batch \in Batches, months \in 1..MaxMonths :
       LET frame == create_dataframe(batch)
       IN \E order \in IterationOrders(all_statuses_of(frame), status_mappings) :
            LET mappings == IF Len(frame) > 0
                            THEN enhance_mappings(status_mappings, order)
                            ELSE status_mappings
                cutoff == get_timezone_aware_cutoff_date(frame, months)
                filtered == filter_by_cutoff(frame, cutoff)
            IN /\ df' = frame
               /\ status_mappings' = mappings
               /\ IF Len(frame) = 0
                  THEN /\ result' = empty_analysis_result
                       /\ cutoff_date' = NaT
                       /\ df_filtered' = <<>>
                  ELSE IF FilterRaises(frame, cutoff)
                  THEN /\ result' = RaisedTypeError
                       /\ cutoff_date' = cutoff
                       /\ df_filtered' = <<>>
                  ELSE /\ cutoff_date' = cutoff
                       /\ df_filtered' = filtered
                       /\ result' = IF Len(filtered) = 0 THEN empty_analysis_result
                                    ELSE analysis_result(mappings, filtered, months)
               /\ issues' = batch
               /\ months_back' = months
               /\ status_order' = order
  /\ calls' = calls + 1
  /\ pc' = "returned"
  /\ UNCHANGED <<issueVars, matchVars, sprintVars, callVars,
                 clientVars, threadVars, cacheVars>>

\* the caller has taken the result; the locals of the call are gone
Return ==
  /\ pc = "returned"
  /\ pc' = "idle"
  /\ issues' = <<>>
  /\ months_back' = 0
  /\ df' = <<>>
  /\ status_order' = <<>>
  /\ cutoff_date' = NaT
  /\ df_filtered' = <<>>
  /\ result' = empty_analysis_result
  /\ UNCHANGED <<status_mappings, calls, issueVars, matchVars, sprintVars, callVars,
                 clientVars, threadVars, cacheVars>>

Next == AnalyzeIssues \/ Return

Spec == Init /\ [][Next]_vars

(***************************************************************************)
(* One status of the data being auto-mapped by _discover_and_map_statuses: *)
(* the call of _find_best_status_match, one known status at a time, and    *)
(* the append that follows it.  The mappings handed to the matcher are the *)
(* seed dictionary, or a dictionary a caller has put in status_mappings.   *)
(***************************************************************************)
\* a dictionary whose categories hold the same words in different orders
ReorderedMappings ==
  [in_progress |-> <<"QA Ready">>,
   testing     |-> <<"Ready QA">>,
   validation  |-> <<"Review">>,
   done        |-> <<"Done">>,
   waiting     |-> <<"Ready for QA">>]

\* the status names of the data
MatchStatuses ==
  {"test", "waiting for test", "Val", "QA Ready", "Ready QA", "ready qa",
   "To Do", "Ready", "Ready for QA"}

\* the pairs the two nested loops go through
pairs == KnownPairs(status_mappings, Len(CatOrder))

InitMatch ==
  /\ status_mappings \in {SeedMappings, ReorderedMappings}
  /\ status \in {s \in MatchStatuses : ~already_mapped(status_mappings, s)}
  /\ known_index = 1
  /\ best = NoMatch
  /\ match_pc = "loop"
  /\ best_match = "None"
  /\ NoSprint
  /\ NoProcessing
  /\ NoThreads
  /\ NoAnalysis
  /\ NoDirectCall
  /\ NoCall
  /\ issue = NoRow
  /\ phase = "unused"
  /\ transitions = <<>>
  /\ idx = 0
  /\ current_status = ""
  /\ current_start = NaT
  /\ durations = ZeroDurations
  /\ in_progress_date = NaT
  /\ done_date = NaT
  /\ lead_times = <<>>

\* if status_lower == known_lower: return category
ReturnExactMatch ==
  /\ match_pc = "loop"
  /\ known_index <= Len(pairs)
  /\ IsExactMatch(status, pairs[known_index].known_status)
  /\ best_match' = pairs[known_index].category
  /\ match_pc' = "returned"
  /\ UNCHANGED <<status_mappings, status, known_index, best, issueVars, batchVars, sprintVars,
                 callVars,
                 clientVars, threadVars, cacheVars>>

\* the rest of the loop body: the substring score and the word overlap
ScoreKnownStatus ==
  /\ match_pc = "loop"
  /\ known_index <= Len(pairs)
  /\ ~IsExactMatch(status, pairs[known_index].known_status)
  /\ best' = LoopBody(best, status, pairs[known_index])
  /\ known_index' = known_index + 1
  /\ UNCHANGED <<status_mappings, status, match_pc, best_match, issueVars, batchVars, sprintVars,
                 callVars,
                 clientVars, threadVars, cacheVars>>

\* return best_category if best_score > 0.3 else None
ReturnBestCategory ==
  /\ match_pc = "loop"
  /\ known_index > Len(pairs)
  /\ best_match' = IF AcceptScore(best.score) THEN best.category ELSE "None"
  /\ match_pc' = "returned"
  /\ UNCHANGED <<status_mappings, status, known_index, best, issueVars, batchVars, sprintVars,
                 callVars,
                 clientVars, threadVars, cacheVars>>

\* if best_match: enhanced_mappings[best_match].append(status)
AppendStatus ==
  /\ match_pc = "returned"
  /\ status_mappings' = IF best_match # "None"
                         THEN [status_mappings EXCEPT ![best_match] = Append(@, status)]
                         ELSE status_mappings
  /\ match_pc' = "mapped"
  /\ UNCHANGED <<status, known_index, best, best_match, issueVars, batchVars, sprintVars,
                 callVars,
                 clientVars, threadVars, cacheVars>>

NextMatch ==
  ReturnExactMatch \/ ScoreKnownStatus \/ ReturnBestCategory \/ AppendStatus

SpecMatch == InitMatch /\ [][NextMatch]_vars

(***************************************************************************)
(* One sprint analysis on a SprintAnalyzer: the capacity the web form      *)
(* configures, the velocity of the historical issues with its Monte Carlo  *)
(* draws, and the forecast for a workload.                                 *)
(***************************************************************************)
MaxHistorical == 2

\* simulations, 10000 in the source
Simulations == 3

\* a Monday in ISO week 1 of 2024, the Sunday that ends ISO week 52 of
\* 2024, and a Monday and a Wednesday of ISO week 1 of 2025
HistoricalDates ==
  {NoDate, BadDate, CalendarDay(2024, 1, 1), CalendarDay(2024, 12, 29),
   CalendarDay(2024, 12, 30), CalendarDay(2025, 1, 1)}

\* every short history, and histories with weeks of two and three
\* resolved issues
HistoricalBatches ==
  UNION {[1..n -> HistoricalDates] : n \in 0..MaxHistorical} \cup
  {<<CalendarDay(2024, 1, 1), CalendarDay(2024, 1, 1), CalendarDay(2024, 12, 29)>>,
   <<CalendarDay(2024, 12, 29), CalendarDay(2024, 1, 1), CalendarDay(2024, 1, 1),
     CalendarDay(2024, 1, 1)>>,
   <<CalendarDay(2024, 1, 1), CalendarDay(2024, 12, 29), CalendarDay(2024, 12, 29),
     CalendarDay(2025, 1, 1), CalendarDay(2025, 1, 1), CalendarDay(2025, 1, 1)>>}

\* ten issues of which some are completed and some lack an estimate, with
\* remaining hours and progress on both sides of every threshold
Workloads ==
  {Workload(10, completed, unestimated, hp[1], hp[2]) :
     completed \in {3, 4, 6, 8, 10}, unestimated \in {3, 4},
     hp \in {<<0, 100>>, <<40, 50>>, <<48, 50>>, <<80, 50>>, <<88, 50>>,
              <<104, 30>>, <<104, 20>>}}

InitSprint ==
  /\ NewSprintAnalyzer
  /\ NoProcessing
  /\ NoThreads
  /\ NoAnalysis
  /\ historical_issues \in HistoricalBatches
  /\ sprint_pc = "new"
  /\ status_mappings = SeedMappings
  /\ NoMatching
  /\ NoDirectCall
  /\ NoCall
  /\ issue = NoRow
  /\ phase = "unused"
  /\ transitions = <<>>
  /\ idx = 0
  /\ current_status = ""
  /\ current_start = NaT
  /\ durations = ZeroDurations
  /\ in_progress_date = NaT
  /\ done_date = NaT
  /\ lead_times = <<>>

\* configure_capacity with the values of the web form, which are not
\* validated
ConfigureCapacity ==
  /\ sprint_pc = "new"
  /\ team_size' \in {0, 5}
  /\ sprint_days' = 10
  /\ hours_per_day' \in {0, 8}
  /\ sprint_pc' = "configured"
  /\ UNCHANGED <<historical_issues, weekly_story_counts, simulation_results,
                 historical, workload, forecast>>
  /\ UNCHANGED <<status_mappings, issueVars, batchVars, matchVars, callVars,
                 clientVars, threadVars, cacheVars>>

\* _calculate_historical_velocity up to the call of the simulation, or to
\* its return when there is no weekly sample
GroupIssuesByWeek ==
  /\ sprint_pc \in {"new", "configured"}
  /\ LET counts == group_issues_by_week(historical_issues)
     IN /\ weekly_story_counts' = counts
        /\ IF counts = <<>>
           THEN /\ historical' = no_velocity(Len(historical_issues))
                /\ sprint_pc' = "forecast"
           ELSE /\ historical' = historical
                /\ sprint_pc' = "simulate"
  /\ UNCHANGED <<team_size, sprint_days, hours_per_day, historical_issues,
                 simulation_results, workload, forecast>>
  /\ UNCHANGED <<status_mappings, issueVars, batchVars, matchVars, callVars,
                 clientVars, threadVars, cacheVars>>

\* one iteration of the simulation loop: np.random.choice(weekly_velocities)
SimulateVelocity ==
  /\ sprint_pc = "simulate"
  /\ Len(simulation_results) < Simulations
  /\ \E simulated_velocity \in random_choice(weekly_story_counts) :
       simulation_results' = Append(simulation_results, simulated_velocity)
  /\ UNCHANGED <<team_size, sprint_days, hours_per_day, historical_issues,
                 weekly_story_counts, historical, workload, forecast, sprint_pc>>
  /\ UNCHANGED <<status_mappings, issueVars, batchVars, matchVars, callVars,
                 clientVars, threadVars, cacheVars>>

\* the percentiles of the draws and the return of
\* _calculate_historical_velocity
ReturnVelocity ==
  /\ sprint_pc = "simulate"
  /\ Len(simulation_results) = Simulations
  /\ historical' = velocity(historical_issues, weekly_story_counts, simulation_results)
  /\ sprint_pc' = "forecast"
  /\ UNCHANGED <<team_size, sprint_days, hours_per_day, historical_issues,
                 weekly_story_counts, simulation_results, workload, forecast>>
  /\ UNCHANGED <<status_mappings, issueVars, batchVars, matchVars, callVars,
                 clientVars, threadVars, cacheVars>>

\* _generate_forecast_with_dates(workload, historical, sprint_details)
GenerateForecast ==
  /\ sprint_pc = "forecast"
  /\ \E w \in Workloads :
       /\ workload' = w
       /\ forecast' = generate_forecast_with_dates(team_size, hours_per_day, w, historical)
  /\ sprint_pc' = "done"
  /\ UNCHANGED <<team_size, sprint_days, hours_per_day, historical_issues,
                 weekly_story_counts, simulation_results, historical>>
  /\ UNCHANGED <<status_mappings, issueVars, batchVars, matchVars, callVars,
                 clientVars, threadVars, cacheVars>>

NextSprint ==
  \/ ConfigureCapacity
  \/ GroupIssuesByWeek
  \/ SimulateVelocity
  \/ ReturnVelocity
  \/ GenerateForecast

SpecSprint == InitSprint /\ [][NextSprint]_vars

(***************************************************************************)
(* _calculate_monte_carlo_probability called on its own, with any          *)
(* percentile map, multiplier and number of remaining stories.             *)
(***************************************************************************)
InitLadder ==
  /\ remaining_stories \in 0..3
  /\ monte_carlo_data \in
       {NoForecast} \cup
       {[percentiles |-> [p10 |-> a, p25 |-> a, p50 |-> b, p75 |-> c, p90 |-> c]] :
          a \in {100, 150, 300}, b \in {100, 150, 300}, c \in {100, 150, 300}}
  /\ multiplier \in {0, 1, 2, 3}
  /\ probability = 0
  /\ call_pc = "ladder"
  /\ fit_data = <<>>
  /\ p_value = NoPValue
  /\ fit_result = EmptyDict
  /\ status_mappings = SeedMappings
  /\ NoMatching
  /\ NoSprint
  /\ NoProcessing
  /\ NoThreads
  /\ NoAnalysis
  /\ NoCall
  /\ issue = NoRow
  /\ phase = "unused"
  /\ transitions = <<>>
  /\ idx = 0
  /\ current_status = ""
  /\ current_start = NaT
  /\ durations = ZeroDurations
  /\ in_progress_date = NaT
  /\ done_date = NaT
  /\ lead_times = <<>>

\* _calculate_monte_carlo_probability(remaining_stories, monte_carlo_data,
\* multiplier)
CalculateProbability ==
  /\ call_pc = "ladder"
  /\ probability' = calculate_monte_carlo_probability(remaining_stories,
                                                       monte_carlo_data, multiplier)
  /\ call_pc' = "returned"
  /\ UNCHANGED <<remaining_stories, monte_carlo_data, multiplier, fit_data,
                 p_value, fit_result>>
  /\ UNCHANGED <<status_mappings, issueVars, batchVars, matchVars, sprintVars,
                 clientVars, threadVars, cacheVars>>

SpecLadder == InitLadder /\ [][CalculateProbability]_vars

(***************************************************************************)
(* _fit_gaussian_distribution called on a list of durations; the outcome   *)
(* of the Shapiro-Wilk test is any p-value, or an exception.               *)
(***************************************************************************)
MaxData == 4

InitFit ==
  /\ fit_data \in UNION {[1..n -> {1, 2}] : n \in 0..MaxData}
  /\ p_value = NoPValue
  /\ fit_result = EmptyDict
  /\ call_pc = "fit"
  /\ remaining_stories = 0
  /\ monte_carlo_data = NoForecast
  /\ multiplier = 1
  /\ probability = 0
  /\ status_mappings = SeedMappings
  /\ NoMatching
  /\ NoSprint
  /\ NoProcessing
  /\ NoThreads
  /\ NoAnalysis
  /\ NoCall
  /\ issue = NoRow
  /\ phase = "unused"
  /\ transitions = <<>>
  /\ idx = 0
  /\ current_status = ""
  /\ current_start = NaT
  /\ durations = ZeroDurations
  /\ in_progress_date = NaT
  /\ done_date = NaT
  /\ lead_times = <<>>

\* _fit_gaussian_distribution(data): stats.shapiro runs only on more than
\* three values, and gives a p-value between 0 and 1 or raises
FitGaussianDistribution ==
  /\ call_pc = "fit"
  /\ p_value' \in IF Len(fit_data) > 3
                  THEN {NoPValue} \cup
                       {[exists |-> TRUE, hundredths |-> h] : h \in {0, 1, 5, 6, 100}}
                  ELSE {NoPValue}
  /\ fit_result' = fit_gaussian_distribution(fit_data, p_value')
  /\ call_pc' = "returned"
  /\ UNCHANGED <<remaining_stories, monte_carlo_data, multiplier, probability,
                 fit_data>>
  /\ UNCHANGED <<status_mappings, issueVars, batchVars, matchVars, sprintVars,
                 clientVars, threadVars, cacheVars>>

SpecFit == InitFit /\ [][FitGaussianDistribution]_vars

(***************************************************************************)
(* JiraClient._process_issue called on one raw issue of the search API.    *)
(***************************************************************************)
MaxHistories == 2  \* histories per changelog

\* the per-issue walk of the DataAnalyzer is not in use
NoIssue ==
  /\ issue = NoRow
  /\ phase = "unused"
  /\ transitions = <<>>
  /\ idx = 0
  /\ current_status = ""
  /\ current_start = NaT
  /\ durations = ZeroDurations
  /\ in_progress_date = NaT
  /\ done_date = NaT
  /\ lead_times = <<>>

\* the items of one history: status changes, changes of other fields, both
\* in either order, or none
ItemLists ==
  {<<>>,
   <<ChangelogItem("status", "To Do", "In Progress")>>,
   <<ChangelogItem("assignee", "", "")>>,
   <<ChangelogItem("status", "To Do", "In Progress"),
     ChangelogItem("status", "In Progress", "Done")>>,
   <<ChangelogItem("assignee", "", ""),
     ChangelogItem("status", "In Progress", "Done")>>,
   <<ChangelogItem("status", "In Progress", "Done"),
     ChangelogItem("resolution", "", "Done")>>}

\* created strings with different offsets, and a missing one
CreatedStrings == {NoDate, DateString(Aware(0, 0)), DateString(Aware(MaxT, 1))}

ChangelogHistories ==
  {ChangelogHistory(created, items) : created \in CreatedStrings, items \in ItemLists}

Changelogs ==
  {NoChangelog, ChangelogWithoutHistories}
  \cup {Changelog(histories) :
          histories \in UNION {[1..n -> ChangelogHistories] : n \in 0..MaxHistories}}

InitProcess ==
  /\ raw_issue \in {[key |-> "K", has_fields |-> f, changelog |-> c] :
                      f \in BOOLEAN, c \in Changelogs}
  /\ processed = NotProcessed
  /\ call_pc = "process"
  /\ remaining_stories = 0
  /\ monte_carlo_data = NoForecast
  /\ multiplier = 1
  /\ probability = 0
  /\ fit_data = <<>>
  /\ p_value = NoPValue
  /\ fit_result = EmptyDict
  /\ status_mappings = SeedMappings
  /\ NoIssue
  /\ NoCall
  /\ NoMatching
  /\ NoSprint
  /\ NoThreads
  /\ NoAnalysis

\* _process_issue(issue)
ProcessIssue ==
  /\ call_pc = "process"
  /\ processed' = process_issue(raw_issue)
  /\ call_pc' = "returned"
  /\ UNCHANGED <<raw_issue, remaining_stories, monte_carlo_data, multiplier,
                 probability, fit_data, p_value, fit_result>>
  /\ UNCHANGED <<status_mappings, issueVars, batchVars, matchVars, sprintVars,
                 threadVars, cacheVars>>

SpecProcess == InitProcess /\ [][ProcessIssue]_vars

(***************************************************************************)
(* Two analyze_issues invocations on one DataAnalyzer whose steps          *)
(* interleave: each derives the enhanced mappings of its dataset, stores   *)
(* them in self.status_mappings, and computes its metrics with the         *)
(* self.status_mappings that _is_status_type and the duration walk read.   *)
(***************************************************************************)
ToReadyForQA == HistoryEntry("To Do", "Ready for QA", DateString(Aware(0, 0)))

ReadyForQADone == HistoryEntry("Ready for QA", "Done", DateString(Aware(MaxT, 0)))

\* datasets of one issue: one that went through a status the seed lacks,
\* one that went through seed statuses, one in a status nothing matches
ThreadBatches ==
  {<<RawIssue("K", "Done", RecentDate, NoDate, <<ToReadyForQA, ReadyForQADone>>)>>,
   <<RawIssue("K", "Done", RecentDate, NoDate, <<ToInProgress, ToDone>>)>>,
   <<RawIssue("K", "Ready", RecentDate, NoDate, <<>>)>>}

InitThreads ==
  /\ status_mappings = SeedMappings
  /\ thread_pc = [t \in Threads |-> "start"]
  /\ thread_df \in [Threads -> {create_dataframe(batch) : batch \in ThreadBatches}]
  /\ enhanced_mappings = [t \in Threads |-> <<>>]
  /\ mappings_read = [t \in Threads |-> <<>>]
  /\ status_durations = [t \in Threads |-> <<>>]
  /\ NoIssue
  /\ NoCall
  /\ NoMatching
  /\ NoSprint
  /\ NoDirectCall
  /\ NoProcessing
  /\ NoAnalysis

\* the rows of df that pass the cutoff of one month
FilteredRows(frame) ==
  filter_by_cutoff(frame, get_timezone_aware_cutoff_date(frame, 1))

\* _discover_and_map_statuses(df): the enhanced mappings start from the
\* self.status_mappings of the moment
DiscoverStatuses ==
  \E t \in Threads :
    /\ thread_pc[t] = "start"
    /\ \E order \in IterationOrders(all_statuses_of(thread_df[t]), status_mappings) :
         enhanced_mappings' =
           [enhanced_mappings EXCEPT ![t] = enhance_mappings(status_mappings, order)]
    /\ thread_pc' = [thread_pc EXCEPT ![t] = "discovered"]
    /\ UNCHANGED <<status_mappings, thread_df, mappings_read, status_durations>>
    /\ UNCHANGED <<issueVars, batchVars, matchVars, sprintVars, callVars,
                   clientVars, cacheVars>>

\* self.status_mappings = <the returned mappings>
StoreMappings ==
  \E t \in Threads :
    /\ thread_pc[t] = "discovered"
    /\ status_mappings' = enhanced_mappings[t]
    /\ thread_pc' = [thread_pc EXCEPT ![t] = "stored"]
    /\ UNCHANGED <<thread_df, enhanced_mappings, mappings_read, status_durations>>
    /\ UNCHANGED <<issueVars, batchVars, matchVars, sprintVars, callVars,
                   clientVars, cacheVars>>

\* the filter and the metrics: every classification reads
\* self.status_mappings
CalculateMetrics ==
  \E t \in Threads :
    /\ thread_pc[t] = "stored"
    /\ mappings_read' = [mappings_read EXCEPT ![t] = status_mappings]
    /\ status_durations' =
         [status_durations EXCEPT
            ![t] = calculate_status_durations(status_mappings,
                                              FilteredRows(thread_df[t]))]
    /\ thread_pc' = [thread_pc EXCEPT ![t] = "returned"]
    /\ UNCHANGED <<status_mappings, thread_df, enhanced_mappings>>
    /\ UNCHANGED <<issueVars, batchVars, matchVars, sprintVars, callVars,
                   clientVars, cacheVars>>

NextThreads == DiscoverStatuses \/ StoreMappings \/ CalculateMetrics

SpecThreads == InitThreads /\ [][NextThreads]_vars

(***************************************************************************)
(* analyze_sprint calls on one SprintAnalyzer for sprints given by name:   *)
(* the sprint details are read from self._sprint_cache while the sprint's  *)
(* issues are fetched, the cache is filled while the historical data is    *)
(* fetched, and the date forecast is made from the details read.           *)
(***************************************************************************)
MaxAnalyses == 3

\* the sprints the board lists: an old closed one, the active one, and a
\* future one without dates
Board ==
  <<BoardSprint(11, "Sprint 1", EndDate(2024, 1, 12, 17), 120),
    BoardSprint(12, "Sprint 2", EndDate(2024, 5, 10, 17), 2),
    BoardSprint(13, "Sprint 3", NoEndDate, 0)>>

\* names given to analyze_sprint; no board lists the last one
SprintNames == {"Sprint 1", "Sprint 2", "Sprint 3", "Sprint 9"}

HistoricalMonths == {3, 6}

InitCache ==
  /\ status_mappings = SeedMappings
  /\ sprint_name = ""
  /\ historical_months = 0
  /\ sprint_cache = <<>>
  /\ sprint_details = NoSprintDetails
  /\ date_forecast = NoDate
  /\ analyze_pc = "idle"
  /\ analyses = 0
  /\ NoIssue
  /\ NoCall
  /\ NoMatching
  /\ NoSprint
  /\ NoDirectCall
  /\ NoProcessing
  /\ NoThreads

\* analyze_sprint(sprint_name, historical_months)
StartAnalysis ==
  /\ analyze_pc = "idle"
  /\ analyses < MaxAnalyses
  /\ \E name \in SprintNames, months \in HistoricalMonths :
       /\ sprint_name' = name
       /\ historical_months' = months
  /\ sprint_details' = NoSprintDetails
  /\ date_forecast' = NoDate
  /\ analyses' = analyses + 1
  /\ analyze_pc' = "fetch"
  /\ UNCHANGED sprint_cache
  /\ UNCHANGED <<status_mappings, issueVars, batchVars, matchVars, sprintVars,
                 callVars, clientVars, threadVars>>

\* _fetch_sprint_issues_with_details: the details are looked up in the
\* cache; without issues analyze_sprint returns the empty result
FetchSprintIssuesWithDetails ==
  /\ analyze_pc = "fetch"
  /\ sprint_details' = get_sprint_details(sprint_cache, sprint_name, historical_months)
  /\ \E has_issues \in BOOLEAN :
       analyze_pc' = IF has_issues THEN "historical" ELSE "idle"
  /\ UNCHANGED <<sprint_name, historical_months, sprint_cache, date_forecast, analyses>>
  /\ UNCHANGED <<status_mappings, issueVars, batchVars, matchVars, sprintVars,
                 callVars, clientVars, threadVars>>

\* _fetch_historical_data_by_sprint_pattern: _get_similar_sprints caches
\* the board's sprints
FetchHistoricalData ==
  /\ analyze_pc = "historical"
  /\ sprint_cache' = cache_sprints(sprint_cache, Board, sprint_name, historical_months)
  /\ analyze_pc' = "forecast"
  /\ UNCHANGED <<sprint_name, historical_months, sprint_details, date_forecast, analyses>>
  /\ UNCHANGED <<status_mappings, issueVars, batchVars, matchVars, sprintVars,
                 callVars, clientVars, threadVars>>

\* _generate_forecast_with_dates: _calculate_date_forecast with the details
\* read at the start
CalculateDateForecast ==
  /\ analyze_pc = "forecast"
  /\ date_forecast' = planned_end_date_of(sprint_details)
  /\ analyze_pc' = "report"
  /\ UNCHANGED <<sprint_name, historical_months, sprint_cache, sprint_details, analyses>>
  /\ UNCHANGED <<status_mappings, issueVars, batchVars, matchVars, sprintVars,
                 callVars, clientVars, threadVars>>

\* return report
ReturnReport ==
  /\ analyze_pc = "report"
  /\ analyze_pc' = "idle"
  /\ UNCHANGED <<sprint_name, historical_months, sprint_cache, sprint_details,
                 date_forecast, analyses>>
  /\ UNCHANGED <<status_mappings, issueVars, batchVars, matchVars, sprintVars,
                 callVars, clientVars, threadVars>>

NextCache ==
  \/ StartAnalysis
  \/ FetchSprintIssuesWithDetails
  \/ FetchHistoricalData
  \/ CalculateDateForecast
  \/ ReturnReport

SpecCache == InitCache /\ [][NextCache]_vars

(***************************************************************************)
(* Properties of the per-issue computations, checked under SpecIssue.      *)
(***************************************************************************)
\* every arrangement of a list
Arrangements(seq) ==
  {[i \in 1..Len(seq) |-> seq[o[i]]] : o \in Orderings(1..Len(seq))}

\* C1: for every issue, _calculate_issue_status_durations returns the same
\* per-category totals for every permutation of the issue's
\* status_transitions list, equal changed-at timestamps included.
C1_SameTotalsForEveryPermutation ==
  phase = "returned" =>
    \A p \in Arrangements(issue.status_transitions) :
      calculate_issue_status_durations(
        status_mappings, [issue EXCEPT !.status_transitions = p]) = durations

\* the instant at which the final interval of an issue closes
CloseInstant(row) ==
  IF notna(row.resolution_date) THEN Instant(row.resolution_date) ELSE NowUTC

\* the elapsed time of interval k of a chronological list: from transition k
\* to the next transition, or to close for the last one
Elapsed(srt, k, close) ==
  (IF k < Len(srt) THEN Instant(srt[k + 1].changed) ELSE close)
  - Instant(srt[k].changed)

\* the elapsed time of those of the first n intervals whose status is
\* accumulated in no category
RECURSIVE SumUnaccumulated(_, _, _, _)
SumUnaccumulated(mappings, srt, n, close) ==
  IF n = 0 THEN 0
  ELSE SumUnaccumulated(mappings, srt, n - 1, close)
       + (IF AccumulatingIndex(mappings, srt[n].to_status) = 0
          THEN Elapsed(srt, n, close) ELSE 0)

\* the partition at the return, and after each round of the walk for the
\* intervals closed so far
PartitionHolds ==
  LET srt == sorted_by_changed(issue.status_transitions)
      n == Len(srt)
      k == idx - 1
  IN /\ phase = "returned" /\ n >= 1 =>
          TotalOf(durations)
            + SumUnaccumulated(status_mappings, srt, n, CloseInstant(issue))
          = CloseInstant(issue) - Instant(srt[1].changed)
     /\ phase = "walk" /\ k >= 1 =>
          TotalOf(durations) + SumUnaccumulated(status_mappings, srt, k - 1, 0)
          = Instant(srt[k].changed) - Instant(srt[1].changed)

\* C2 as stated: for every issue with N >= 1 transitions, the per-category
\* durations plus the elapsed time of the intervals accumulated in no
\* category equal the elapsed time from the earliest changed-at to the close
\* of the final interval, and likewise after every step of the walk.
C2_PartitionForEveryIssue == PartitionHolds

\* C2, amended: the partition holds for every issue with N >= 1 transitions
\* whose changed-at timestamps are all timezone-naive or all offset-aware;
\* an issue that mixes the two returns all-zero durations.
C2_PartitionWhenSortable ==
  /\ ~SortRaises(issue.status_transitions) => PartitionHolds
  /\ phase = "returned" /\ SortRaises(issue.status_transitions) =>
       durations = ZeroDurations

\* an issue of comparable timestamps has returned with time accumulated in a
\* category and time spent in a status that no category accumulates
C2_Witness ==
  /\ phase = "returned"
  /\ ~SortRaises(issue.status_transitions)
  /\ Len(issue.status_transitions) = MaxTrans
  /\ durations["in_progress"] > 0
  /\ SumUnaccumulated(status_mappings, sorted_by_changed(issue.status_transitions),
                      MaxTrans, CloseInstant(issue)) > 0

\* C3: for every arrival order of the changelog, the lead-time start used by
\* _calculate_lead_times is the changed-at of the chronologically first
\* transition into an in_progress status, and the end is the changed-at of
\* the chronologically last transition into a done status.
C3_ChronologicalBoundaries ==
  phase \in {"sort", "walk", "returned"} /\ ~SortRaises(issue.status_transitions) =>
    LET trs == issue.status_transitions
        OfType(status_type) ==
          {Instant(trs[i].changed) :
             i \in {j \in 1..Len(trs) :
                      is_status_type(status_mappings, trs[j].to_status, status_type)}}
    IN /\ OfType("in_progress") # {} =>
            /\ notna(in_progress_date)
            /\ \A s \in OfType("in_progress") : Instant(in_progress_date) <= s
       /\ OfType("done") # {} =>
            /\ notna(done_date)
            /\ \A e \in OfType("done") : Instant(done_date) >= e

\* the same instant expressed with UTC offset o; a naive or null timestamp
\* is left as it is
Reexpress(ts, o) ==
  IF notna(ts) /\ ts.aware THEN Aware(Instant(ts) + o, o) ELSE ts

\* the issue with every offset-aware timestamp re-expressed, the resolution
\* date with offset f[0] and transition i with offset f[i]
Reexpressed(row, f) ==
  [row EXCEPT
     !.resolution_date = Reexpress(@, f[0]),
     !.status_transitions =
        [i \in 1..Len(@) |-> [@[i] EXCEPT !.changed = Reexpress(@, f[i])]]]

\* C4: lead times and per-category durations depend only on the absolute
\* instants: expressing any offset-aware changed-at or resolution date with
\* another UTC offset changes neither the lead times nor the durations.
C4_OffsetsDoNotMatter ==
  phase = "returned" =>
    \A f \in [0..Len(issue.status_transitions) -> Offsets] :
      /\ calculate_issue_status_durations(status_mappings, Reexpressed(issue, f))
         = durations
      /\ issue_lead_times(status_mappings, Reexpressed(issue, f)) = lead_times

\* an issue whose transitions carry different offsets has returned a lead
\* time and a non-zero duration
C4_Witness ==
  /\ phase = "returned"
  /\ lead_times # <<>>
  /\ durations # ZeroDurations
  /\ \E i, j \in 1..Len(issue.status_transitions) :
       /\ issue.status_transitions[i].changed.aware
       /\ issue.status_transitions[j].changed.aware
       /\ issue.status_transitions[i].changed.off
            # issue.status_transitions[j].changed.off

(***************************************************************************)
(* Properties of analyze_issues, checked under Spec.  In a state with      *)
(* pc = "returned", status_mappings is the map the call has used.          *)
(***************************************************************************)
\* C5: analyze_issues raises no exception and returns a result for every
\* batch of issue records, an empty batch and batches with missing,
\* unparseable or mixed naive and offset-aware timestamps included.
C5_NoExceptionForAnyBatch ==
  pc = "returned" => ~result.raised

\* the done date found for the row is strictly later than the in_progress
\* date found for it
DoneAfterStart(row) ==
  LET ip == in_progress_date_of(status_mappings, row)
      dn == done_date_of(status_mappings, row)
  IN notna(ip) /\ notna(dn) /\ Instant(dn) > Instant(ip)

\* C6: every value of the lead_times list returned by analyze_issues is
\* strictly greater than 0: an issue whose last done transition is not
\* strictly later than its first in_progress transition contributes no
\* lead-time sample.
C6_LeadTimesStrictlyPositive ==
  pc = "returned" =>
    /\ \A i \in 1..Len(result.lead_times) : result.lead_times[i] > 0
    /\ Len(result.lead_times)
         <= Cardinality({i \in 1..Len(df_filtered) : DoneAfterStart(df_filtered[i])})

\* a call has returned a lead time for one issue and none for an issue whose
\* done transition is not later than its in_progress transition
C6_Witness ==
  /\ pc = "returned"
  /\ Len(result.lead_times) >= 1
  /\ \E i \in 1..Len(df_filtered) :
       /\ notna(in_progress_date_of(status_mappings, df_filtered[i]))
       /\ notna(done_date_of(status_mappings, df_filtered[i]))
       /\ ~DoneAfterStart(df_filtered[i])

\* the row has a transition into an in_progress status and one into a done
\* status
HasBothBoundaries(row) ==
  /\ \E k \in 1..Len(row.status_transitions) :
       is_status_type(status_mappings, row.status_transitions[k].to_status,
                      "in_progress")
  /\ \E k \in 1..Len(row.status_transitions) :
       is_status_type(status_mappings, row.status_transitions[k].to_status, "done")

NoTimezoneInfo(frame) ==
  \A i \in 1..Len(frame) : ~(notna(frame[i].created) /\ frame[i].created.aware)

\* the rows with created >= cutoff, in the order of the dataset
RowsFrom(frame, cutoff) ==
  LET NotEarlier(row) ==
        notna(row.created) /\ Instant(row.created) >= Instant(cutoff)
  IN SelectSeq(frame, NotEarlier)

DateKept(raw, ts) ==
  IF raw.kind = "ok"
  THEN notna(ts) /\ ts.wall = raw.wall /\ ts.aware = raw.aware /\ ts.off = raw.off
  ELSE ~notna(ts)

\* C9: _create_dataframe keeps every issue record even when its created or
\* resolution date is missing or unparseable (the date becomes null), and
\* drops exactly the transitions whose changed timestamp is missing or
\* unparseable, keeping the others in arrival order.
C9_RecordsKeptBadTransitionsDropped ==
  pc = "returned" =>
    /\ Len(df) = Len(issues)
    /\ \A i \in 1..Len(issues) :
         LET Parseable(entry) == entry.changed.kind = "ok"
             kept == SelectSeq(issues[i].status_history, Parseable)
             trs == df[i].status_transitions
         IN /\ df[i].key = issues[i].key
            /\ DateKept(issues[i].created, df[i].created)
            /\ DateKept(issues[i].resolution_date, df[i].resolution_date)
            /\ Len(trs) = Len(kept)
            /\ \A k \in 1..Len(kept) :
                 /\ trs[k].from_status = kept[k].from_status
                 /\ trs[k].to_status = kept[k].to_status
                 /\ DateKept(kept[k].changed, trs[k].changed)

\* a call has built a DataFrame from a record with an unparseable created
\* date and a record that lost one transition of three
C9_Witness ==
  /\ pc = "returned"
  /\ \E i \in 1..Len(issues) :
       issues[i].created.kind = "bad" /\ ~notna(df[i].created)
  /\ \E j \in 1..Len(issues) :
       /\ Len(issues[j].status_history) = 3
       /\ Len(df[j].status_transitions) = 2

\* C10: for any sequence of analyze_issues calls on one instance, the status
\* map used by each call equals the map a freshly constructed analyzer
\* derives from the seed dictionary and that call's dataset alone.
C10_MapOfFreshAnalyzer ==
  pc = "returned" /\ df # <<>> =>
    \E order \in IterationOrders(all_statuses_of(df), SeedMappings) :
      status_mappings = enhance_mappings(SeedMappings, order)

(***************************************************************************)
(* Properties of _find_best_status_match, checked under SpecMatch.         *)
(***************************************************************************)
\* the two names are equal once both are lowercased
EqualIgnoringCase(a, b) == Lower(Chars[a]) = Lower(Chars[b])

\* the categories of the argument that hold a literal equal to the status
\* ignoring case
ExactCategories ==
  {c \in Categories :
     \E i \in 1..Len(status_mappings[c]) :
        EqualIgnoringCase(status, status_mappings[c][i])}

\* C11: whenever some literal of some category equals the status name
\* ignoring case, _find_best_status_match returns a category that holds
\* such a literal, whatever the substring and word-overlap scores of the
\* literals evaluated before it are.
C11_ExactMatchWins ==
  (match_pc = "returned" /\ ExactCategories # {})
    => best_match \in ExactCategories

\* an exact match is returned although a literal of another category,
\* evaluated earlier, has already scored 1
C11_Witness ==
  /\ match_pc = "returned"
  /\ best_match \in ExactCategories
  /\ best.category \in Categories \ ExactCategories
  /\ best.score.num = best.score.den

\* min(len)/max(len) when one lowercased name contains the other, else 0
SubstringScore(a, b) ==
  LET x == Lower(Chars[a])
      y == Lower(Chars[b])
  IN IF IsSubstring(x, y) THEN Fraction(Len(x), Len(y))
     ELSE IF IsSubstring(y, x) THEN Fraction(Len(y), Len(x))
     ELSE Fraction(0, 1)

\* |common words| / max(|words1|, |words2|)
WordOverlapScore(a, b) ==
  LET x == WordSet(Lower(Chars[a]))
      y == WordSet(Lower(Chars[b]))
  IN Fraction(Cardinality(x \cap y),
              IF Cardinality(x) >= Cardinality(y) THEN Cardinality(x)
              ELSE Cardinality(y))

\* the greater of the two scores of the i-th known literal
PairScore(i) ==
  LET sub == SubstringScore(status, pairs[i].known_status)
      ovl == WordOverlapScore(status, pairs[i].known_status)
  IN IF Greater(ovl, sub) THEN ovl ELSE sub

\* the known literals whose score no other literal exceeds
MaximalPairs ==
  {i \in 1..Len(pairs) : \A j \in 1..Len(pairs) : ~Greater(PairScore(j), PairScore(i))}

FirstMaximalPair == CHOOSE i \in MaximalPairs : \A j \in MaximalPairs : i <= j

\* C12: when no literal matches exactly, _find_best_status_match returns
\* the category of the first literal, in evaluation order, that attains the
\* maximum of the substring and word-overlap scores over all known literals
\* (a later candidate replaces the best only with a strictly greater
\* score), and only if that maximum is strictly greater than 0.3; otherwise
\* it returns no category and the status is appended to no category.
C12_BestScoreAboveThreshold ==
  /\ (match_pc = "returned" /\ ExactCategories = {}) =>
       best_match = IF Greater(PairScore(FirstMaximalPair), Fraction(3, 10))
                    THEN pairs[FirstMaximalPair].category
                    ELSE "None"
  /\ (match_pc = "mapped" /\ best_match = "None") =>
       ~already_mapped(status_mappings, status)

\* literals of two categories attain the maximum and the earlier one wins
C12_Witness ==
  /\ match_pc = "returned"
  /\ ExactCategories = {}
  /\ \E i, j \in MaximalPairs : pairs[i].category # pairs[j].category
  /\ best_match = pairs[FirstMaximalPair].category

(***************************************************************************)
(* Properties of the sprint forecast, checked under SpecSprint.            *)
(***************************************************************************)
\* the velocity of the history has been computed from weekly samples
HasVelocity ==
  /\ sprint_pc \in {"forecast", "done"}
  /\ weekly_story_counts # <<>>

\* C13: for every non-empty weekly-velocity population and every outcome
\* of the random draws, the percentiles _run_monte_carlo_simulation returns
\* satisfy p10 <= p25 <= p50 <= p75 <= p90.
C13_PercentilesOrdered ==
  HasVelocity =>
    LET p == historical.monte_carlo_forecast.percentiles
    IN p.p10 <= p.p25 /\ p.p25 <= p.p50 /\ p.p50 <= p.p75 /\ p.p75 <= p.p90

\* draws of different velocities, with percentiles that differ
C13_Witness ==
  /\ HasVelocity
  /\ historical.monte_carlo_forecast.percentiles.p10
       < historical.monte_carlo_forecast.percentiles.p50
  /\ historical.monte_carlo_forecast.percentiles.p50
       < historical.monte_carlo_forecast.percentiles.p90

(***************************************************************************)
(* Properties of _calculate_monte_carlo_probability, checked under         *)
(* SpecLadder.                                                             *)
(***************************************************************************)
\* C14: for remaining > 0 and a non-empty percentile map,
\* _calculate_monte_carlo_probability returns 90 if P90 x multiplier >=
\* remaining, else 70 if P50 x multiplier >= remaining, else 30 if P10 x
\* multiplier >= remaining, else 10: a value of this fixed ladder, never an
\* interpolated number.
C14_ProbabilityLadder ==
  (/\ call_pc = "returned"
   /\ remaining_stories > 0
   /\ monte_carlo_data # NoForecast) =>
    LET p == monte_carlo_data.percentiles
        needed == 100 * remaining_stories
    IN /\ probability \in {90, 70, 30, 10}
       /\ probability = 90 <=> p.p90 * multiplier >= needed
       /\ probability = 70 <=> /\ p.p90 * multiplier < needed
                               /\ p.p50 * multiplier >= needed
       /\ probability = 30 <=> /\ p.p90 * multiplier < needed
                               /\ p.p50 * multiplier < needed
                               /\ p.p10 * multiplier >= needed
       /\ probability = 10 <=> /\ p.p90 * multiplier < needed
                               /\ p.p50 * multiplier < needed
                               /\ p.p10 * multiplier < needed

\* the second rung, reached with the scaled P50 exactly at the remaining
\* count
C14_Witness ==
  /\ call_pc = "returned"
  /\ remaining_stories > 0
  /\ monte_carlo_data # NoForecast
  /\ monte_carlo_data.percentiles.p50 * multiplier = 100 * remaining_stories
  /\ probability = 70

(***************************************************************************)
(* Properties of the sprint forecast, checked under SpecSprint.            *)
(***************************************************************************)
\* C15: whenever the remaining story count is zero, the forecast's
\* probability_of_completion is 100, whatever the historical data is.
C15_ZeroRemainingIsCertain ==
  (/\ sprint_pc = "done"
   /\ ~forecast.raised
   /\ workload.total_issues = workload.completed_issues)
    => forecast.probability_of_completion = 100

\* the points of the four checks, from the workload and the probability of
\* the forecast
RiskPoints ==
  (IF workload.total_remaining_estimate > 80 THEN 2
   ELSE IF workload.total_remaining_estimate > 40 THEN 1 ELSE 0)
  + (IF forecast.probability_of_completion < 60 THEN 2
     ELSE IF forecast.probability_of_completion < 80 THEN 1 ELSE 0)
  + (IF workload.overall_progress < 30 /\ workload.total_remaining_estimate > 100
     THEN 1 ELSE 0)
  + (IF 10 * workload.unestimated_issues
          > 3 * (IF workload.total_issues > 1 THEN workload.total_issues ELSE 1)
     THEN 1 ELSE 0)

\* C16: _calculate_risk_level adds the points of four independent checks
\* (remaining days > 10 gives 2, else > 5 gives 1; completion probability
\* < 60 gives 2, else < 80 gives 1; progress < 30 with remaining hours
\* > 100 gives 1; unestimated ratio > 0.3 gives 1) and returns HIGH iff the
\* total is >= 3, MEDIUM iff it is 1 or 2, LOW iff it is 0.
C16_RiskLevelFromPoints ==
  (sprint_pc = "done" /\ ~forecast.raised) =>
    /\ forecast.risk_level = "HIGH" <=> RiskPoints >= 3
    /\ forecast.risk_level = "MEDIUM" <=> RiskPoints \in {1, 2}
    /\ forecast.risk_level = "LOW" <=> RiskPoints = 0

\* two points, one short of HIGH
C16_Witness ==
  /\ sprint_pc = "done"
  /\ ~forecast.raised
  /\ RiskPoints = 2
  /\ forecast.risk_level = "MEDIUM"

\* C17: when there is no velocity history, _generate_forecast_with_dates
\* raises no exception and divides by no zero for every workload and every
\* configured capacity, sets probability_of_completion to 70 and returns a
\* risk_level.
C17_NoHistoryFallsBack ==
  (sprint_pc = "done" /\ weekly_story_counts = <<>>) =>
    /\ ~forecast.raised
    /\ forecast.probability_of_completion = 70
    /\ forecast.risk_level \in {"LOW", "MEDIUM", "HIGH"}

\* the historical issues whose resolution date parses
Parseable ==
  {i \in 1..Len(historical_issues) : historical_issues[i].kind = "ok"}

\* the ISO weeks that hold a parseable resolution date
IsoWeeks == {isocalendar(historical_issues[i]) : i \in Parseable}

\* C18: _group_issues_by_week puts two issues into the same weekly bucket
\* if and only if their resolution dates have the same ISO year and the
\* same ISO week number, and the returned samples are exactly the
\* per-bucket counts.
C18_BucketsAreIsoWeeks ==
  sprint_pc \in {"simulate", "forecast", "done"} =>
    /\ \A i, j \in Parseable :
         week_key(historical_issues[i]) = week_key(historical_issues[j])
           <=> isocalendar(historical_issues[i]) = isocalendar(historical_issues[j])
    /\ Len(weekly_story_counts) = Cardinality(IsoWeeks)
    /\ \A n \in 1..Len(historical_issues) :
         Cardinality({k \in 1..Len(weekly_story_counts) : weekly_story_counts[k] = n})
           = Cardinality({w \in IsoWeeks :
               Cardinality({i \in Parseable : isocalendar(historical_issues[i]) = w}) = n})

(***************************************************************************)
(* Properties of _fit_gaussian_distribution, checked under SpecFit.        *)
(***************************************************************************)
\* C19 as stated: _fit_gaussian_distribution called on an empty collection
\* raises no exception and returns a summary object whose count field
\* equals 0.
C19_EmptyDataCountsZero ==
  (call_pc = "returned" /\ fit_data = <<>>) =>
    ("count" \in DOMAIN fit_result /\ fit_result["count"] = 0)

\* C19: _fit_gaussian_distribution called on an empty collection raises no
\* exception and returns the empty dictionary: the summary has no field,
\* and so no count field.
C19_EmptyDataGivesEmptySummary ==
  (call_pc = "returned" /\ fit_data = <<>>) => DOMAIN fit_result = {}

\* the call on an empty collection has returned
C19_Witness ==
  /\ call_pc = "returned"
  /\ fit_data = <<>>
  /\ "count" \notin DOMAIN fit_result

\* C20 as stated: for a non-empty collection a p-value is computed only
\* when count > 3, and is_normal is true exactly when a p-value exists and
\* is > 0.05 and is null in every other case, never false.
C20_NormalOrNullNeverFalse ==
  (call_pc = "returned" /\ fit_data # <<>>) =>
    /\ fit_result.normality_test_p_value.exists => fit_result.count > 3
    /\ fit_result.is_normal =
         IF /\ fit_result.normality_test_p_value.exists
            /\ fit_result.normality_test_p_value.hundredths > 5
         THEN "True" ELSE "None"

\* C20: for a non-empty collection a p-value is computed only when
\* count > 3; is_normal is true exactly when a p-value exists and is
\* > 0.05, false exactly when a p-value exists, is not 0 and is <= 0.05,
\* and null exactly when there is no p-value or the p-value is 0.
C20_NormalityFlag ==
  (call_pc = "returned" /\ fit_data # <<>>) =>
    LET p == fit_result.normality_test_p_value
    IN /\ p.exists => fit_result.count > 3
       /\ fit_result.is_normal = "True" <=> (p.exists /\ p.hundredths > 5)
       /\ fit_result.is_normal = "False" <=>
            (p.exists /\ p.hundredths # 0 /\ p.hundredths <= 5)
       /\ fit_result.is_normal = "None" <=> (~p.exists \/ p.hundredths = 0)

\* a p-value of exactly 0.05 on more than three values: is_normal is False
C20_Witness ==
  /\ call_pc = "returned"
  /\ fit_data # <<>>
  /\ fit_result.count > 3
  /\ fit_result.normality_test_p_value.exists
  /\ fit_result.normality_test_p_value.hundredths = 5
  /\ fit_result.is_normal = "False"

(***************************************************************************)
(* Properties of the returned durations, checked under SpecIssue.          *)
(***************************************************************************)
\* C23: every per-category value returned by
\* _calculate_issue_status_durations is >= 0: an interval whose elapsed
\* time is negative (a final interval closed by a resolution date earlier
\* than the last transition) is added to no category total.
C23_DurationsNeverNegative ==
  phase = "returned" => \A status_type \in DurationKeys : durations[status_type] >= 0

(***************************************************************************)
(* Further properties of the sprint forecast, checked under SpecSprint.    *)
(***************************************************************************)
\* the forecast came from the Monte Carlo branch, with a positive median
\* velocity
UsedMonteCarlo ==
  /\ sprint_pc = "done"
  /\ ~forecast.raised
  /\ weekly_story_counts # <<>>
  /\ historical.monte_carlo_forecast.percentiles.p50 > 0

\* estimated_weeks_needed is remaining_stories over m times the P50
WeeksUseMultiplier(m) ==
  forecast.estimated_weeks_needed.num
      * historical.monte_carlo_forecast.percentiles.p50 * m
    = 100 * forecast.remaining_stories * forecast.estimated_weeks_needed.den

\* C24: in _generate_forecast_with_dates the velocity multiplier passed to
\* the completion-probability calculation is the multiplier applied to the
\* P50 velocity for estimated_weeks_needed (the fixed 3x).
C24_ProbabilityUsesVelocityMultiplier ==
  UsedMonteCarlo =>
    /\ WeeksUseMultiplier(3)
    /\ \A m \in 1..4 :
         WeeksUseMultiplier(m) =>
           forecast.probability_of_completion
             = calculate_monte_carlo_probability(forecast.remaining_stories,
                 historical.monte_carlo_forecast, m)


\* the weekly counts the history gave
Population == {weekly_story_counts[i] : i \in 1..Len(weekly_story_counts)}

\* the smallest and the largest weekly count of the population
PopulationMin ==
  CHOOSE v \in Population :
    \A w \in Population : v <= w

PopulationMax ==
  CHOOSE v \in Population :
    \A w \in Population : v >= w

\* C25: every simulated draw of _run_monte_carlo_simulation is an element
\* of the weekly-count population (sampling with replacement, as many
\* draws as simulations), so each reported percentile and the simulated
\* mean lie between the population's minimum and maximum.
C25_DrawsFromPopulation ==
  /\ \A i \in 1..Len(simulation_results) :
       simulation_results[i] \in Population
  /\ HasVelocity =>
       LET monte_carlo_forecast == historical.monte_carlo_forecast
           p == monte_carlo_forecast.percentiles
       IN /\ Len(simulation_results) = Simulations
          /\ \A q \in {p.p10, p.p25, p.p50, p.p75, p.p90} :
               100 * PopulationMin <= q /\ q <= 100 * PopulationMax
          /\ PopulationMin * monte_carlo_forecast.mean.den
               <= monte_carlo_forecast.mean.num
          /\ monte_carlo_forecast.mean.num
               <= PopulationMax * monte_carlo_forecast.mean.den

\* the same weekly count drawn twice from a population of two counts, with
\* a mean strictly between them
C25_Witness ==
  /\ HasVelocity
  /\ PopulationMin < PopulationMax
  /\ \E i, j \in 1..Len(simulation_results) :
       i # j /\ simulation_results[i] = simulation_results[j]
  /\ PopulationMin * historical.monte_carlo_forecast.mean.den
       < historical.monte_carlo_forecast.mean.num
  /\ historical.monte_carlo_forecast.mean.num
       < PopulationMax * historical.monte_carlo_forecast.mean.den

\* C30: whenever the forecast takes the no-history fallback branch
\* (probability_of_completion = 70), the returned risk_level is never LOW,
\* for every workload: it is MEDIUM or HIGH even when no work remains.
C30_FallbackNeverLowRisk ==
  (sprint_pc = "done" /\ ~forecast.raised /\ weekly_story_counts = <<>>) =>
    /\ forecast.probability_of_completion = 70
    /\ forecast.risk_level \in {"MEDIUM", "HIGH"}

\* the fallback with every issue completed and no hour remaining: the one
\* point of the probability makes the risk MEDIUM
C30_Witness ==
  /\ sprint_pc = "done"
  /\ ~forecast.raised
  /\ weekly_story_counts = <<>>
  /\ workload.completed_issues = workload.total_issues
  /\ workload.total_remaining_estimate = 0
  /\ 10 * workload.unestimated_issues <= 3 * workload.total_issues
  /\ forecast.risk_level = "MEDIUM"

(***************************************************************************)
(* The ladder on percentiles in the order the simulation gives them,       *)
(* checked under SpecLadder.                                               *)
(***************************************************************************)
\* the percentile map is one the simulation can produce
OrderedPercentiles ==
  /\ monte_carlo_data # NoForecast
  /\ monte_carlo_data.percentiles.p10 <= monte_carlo_data.percentiles.p50
  /\ monte_carlo_data.percentiles.p50 <= monte_carlo_data.percentiles.p90

\* C26: for percentiles produced by the simulation (p10 <= p50 <= p90),
\* any multiplier >= 0 and any remaining > 0,
\* _calculate_monte_carlo_probability returns only 90 or 10: the 70 and 30
\* bands of the ladder are unreachable.
C26_OnlyTopAndBottomRung ==
  (call_pc = "returned" /\ remaining_stories > 0 /\ OrderedPercentiles) =>
    probability \in {90, 10}

\* the scaled median alone would reach the remaining count, and the answer
\* is 90
C26_Witness ==
  /\ call_pc = "returned"
  /\ remaining_stories > 0
  /\ OrderedPercentiles
  /\ monte_carlo_data.percentiles.p10 < monte_carlo_data.percentiles.p50
  /\ monte_carlo_data.percentiles.p50 < monte_carlo_data.percentiles.p90
  /\ monte_carlo_data.percentiles.p50 * multiplier >= 100 * remaining_stories
  /\ probability = 90

(***************************************************************************)
(* Properties of the status map across orders and calls, checked under     *)
(* Spec.                                                                   *)
(***************************************************************************)
\* the names a dictionary lists under a category
NamesOf(mappings, category) ==
  {mappings[category][i] : i \in 1..Len(mappings[category])}

\* C27: the category _discover_and_map_statuses assigns to each discovered
\* status does not depend on the order in which the statuses are
\* processed: for a fixed seed map and dataset, every processing order of
\* the status set yields the same enhanced map, as a set of names per
\* category.
C27_SameMapForEveryOrder ==
  (pc = "returned" /\ calls = 1 /\ df # <<>>) =>
    \A order \in IterationOrders(all_statuses_of(df), SeedMappings) :
      \A category \in Categories :
        NamesOf(enhance_mappings(SeedMappings, order), category)
          = NamesOf(status_mappings, category)

\* C28: after any sequence of analyze_issues calls, every status name
\* appears in the list of at most one category of status_mappings, so
\* _is_status_type is true for at most one category per status name.
C28_OneCategoryPerName ==
  /\ \A c1, c2 \in Categories :
       c1 # c2 => NamesOf(status_mappings, c1) \cap NamesOf(status_mappings, c2) = {}
  /\ \A status_name \in UNION {NamesOf(status_mappings, c) : c \in Categories} :
       Cardinality({c \in Categories :
                      is_status_type(status_mappings, status_name, c)}) = 1

\* the second call has returned, and two names the seed lacks have been
\* filed by the fuzzy match
C28_Witness ==
  /\ pc = "returned"
  /\ calls = 2
  /\ \E c \in Categories :
       "Ready for QA" \in NamesOf(status_mappings, c) \ NamesOf(SeedMappings, c)
  /\ \E c \in Categories :
       "Ready" \in NamesOf(status_mappings, c) \ NamesOf(SeedMappings, c)

(***************************************************************************)
(* Properties of _process_issue, checked under SpecProcess.                *)
(***************************************************************************)
\* the places <<history, item>> of the changelog items with field 'status'
StatusPlaces ==
  {pl \in UNION {{<<h, i>> : i \in 1..Len(raw_issue.changelog.histories[h].items)} :
                  h \in 1..Len(raw_issue.changelog.histories)} :
     raw_issue.changelog.histories[pl[1]].items[pl[2]].field = "status"}

\* how many status items arrive no later than the one at the place
ArrivalRank(pl) ==
  Cardinality({q \in StatusPlaces :
                 q[1] < pl[1] \/ (q[1] = pl[1] /\ q[2] <= pl[2])})

\* C21: _process_issue returns a record whose status_history has one entry
\* per changelog item with field 'status', in changelog arrival order,
\* each carrying the unmodified created string of its history entry, and
\* no entry for items of any other field; an issue with no changelog or
\* with empty histories gets an empty status_history.
C21_StatusHistoryFollowsChangelog ==
  (call_pc = "returned" /\ processed.kind = "record") =>
    /\ Len(processed.status_history) = Cardinality(StatusPlaces)
    /\ \A pl \in StatusPlaces :
         LET history == raw_issue.changelog.histories[pl[1]]
             entry == processed.status_history[ArrivalRank(pl)]
         IN /\ entry.from_status = history.items[pl[2]].fromString
            /\ entry.to_status = history.items[pl[2]].toString
            /\ entry.changed = history.created
    /\ (raw_issue.changelog.kind # "histories"
          \/ raw_issue.changelog.histories = <<>>)
         => processed.status_history = <<>>

\* two histories with created strings of different offsets, the first
\* with an item of another field before its status item
C21_Witness ==
  /\ call_pc = "returned"
  /\ processed.kind = "record"
  /\ Len(raw_issue.changelog.histories) = 2
  /\ Len(raw_issue.changelog.histories[1].items) = 2
  /\ raw_issue.changelog.histories[1].items[1].field # "status"
  /\ raw_issue.changelog.histories[1].created
       # raw_issue.changelog.histories[2].created
  /\ Len(processed.status_history) = 2
  /\ processed.status_history[1].changed = raw_issue.changelog.histories[1].created
  /\ processed.status_history[2].changed = raw_issue.changelog.histories[2].created

(***************************************************************************)
(* Properties of interleaved invocations, checked under SpecThreads.       *)
(***************************************************************************)
\* C22: when two analyze_issues invocations on the same DataAnalyzer
\* instance interleave, each invocation classifies statuses using only the
\* status map it derived from its own dataset: no interleaving lets one
\* invocation read a status map written by the other.
C22_OwnMapOnly ==
  \A t \in Threads :
    thread_pc[t] = "returned" =>
      /\ mappings_read[t] = enhanced_mappings[t]
      /\ status_durations[t]
           = calculate_status_durations(enhanced_mappings[t],
                                        FilteredRows(thread_df[t]))

(***************************************************************************)
(* Properties of the sprint cache, checked under SpecCache.                *)
(***************************************************************************)
\* C29: in analyze_sprint for a sprint given by name, the sprint cache is
\* populated, under the key the lookup uses, before _get_sprint_details
\* reads it: whenever the board's sprint list contains the sprint with an
\* end date, the date forecast reports that date as planned_end_date, on
\* the first call of a fresh SprintAnalyzer and for every historical_months
\* value.
C29_PlannedEndDateFromBoard ==
  analyze_pc = "report" =>
    \A i \in 1..Len(Board) :
      (Board[i].name = sprint_name /\ Board[i].end_date.kind = "ok") =>
        date_forecast = CalendarDay(Board[i].end_date.year,
                                    Board[i].end_date.month,
                                    Board[i].end_date.day)

=============================================================================
